---------------------------- MODULE Spec2Model ----------------------------
(***************************************************************************)
(* State-machine model of the three analytics components of               *)
(* salesforce-analytics: LeadScorer (src/analytics/lead_scoring.py),      *)
(* PipelineAnalyser (src/analytics/pipeline_health.py) and ChurnPredictor *)
(* (src/analytics/churn_risk.py), and of their collaborators:             *)
(* SalesforceClient (src/salesforce/client.py), SalesforceWriteback       *)
(* (src/automation/salesforce_writeback.py) and NotificationService       *)
(* (src/automation/notifications.py).                                     *)
(*                                                                         *)
(* Numbers.  The code computes in float64 on pandas Series.  The model    *)
(* computes in exact integer fixed point and adds the one float value the *)
(* claims depend on, NaN: a number is a record [nan, v].  A pandas Series *)
(* over the frame's RangeIndex is a function on 1..n; a label the Series  *)
(* lacks reads NaN once it is aligned with the frame, which is how the    *)
(* code's df.get(col, pd.Series(...)) defaults behave.                    *)
(***************************************************************************)
EXTENDS Integers, Sequences, FiniteSets, TLC

VARIABLES
    pc,          \* position of the caller: "idle", or the entry point that last returned
    weights,     \* LeadScorer.weights
    leadsIn,     \* the leads argument of the last LeadScorer call
    scored,      \* frame returned by the last score_leads
    prevScored,  \* what the score_leads call before it returned for each of the same leads
    topLeads,    \* frame returned by the last get_top_leads
    dist,        \* dict returned by the last get_score_distribution
    oppsIn,      \* the opportunities argument of the last PipelineAnalyser / ChurnPredictor call
    analysis,    \* dict returned by the last analyse_pipeline
    accountsIn,  \* the accounts argument of the last ChurnPredictor call
    casesIn,     \* the cases argument of the last ChurnPredictor call
    churn,       \* frame returned by the last predict_churn
    summary,     \* dict returned by the last get_risk_summary
    funnel,      \* list returned by the last get_stage_funnel
    sf,          \* the SalesforceClient: its mode and its _mock_data
    writeback,   \* the last update_lead_scores: its frame, its update_record calls, its return
    created,     \* what the last create_record was given and returned
    channels,    \* NotificationService.channels: the name of each, and whether it has recipients
    alertHistory, \* NotificationService._alert_history
    alertCalls,  \* the alerts the callers have given to send_alert, in call order
    dispatched,  \* the last send_alert: its calls of channel.send, and whether it returned
    thresholds,  \* ChurnPredictor.thresholds
    stages,      \* PipelineAnalyser.stages
    threads      \* the concurrent invocations on the three instances, one per thread

vars == <<pc, weights, leadsIn, scored, prevScored, topLeads, dist,
          oppsIn, analysis, accountsIn, casesIn, churn, summary,
          funnel, sf, writeback, created,
          channels, alertHistory, alertCalls, dispatched,
          thresholds, stages, threads>>

\* the attributes of ChurnPredictor and PipelineAnalyser, and the threads that
\* call the instances concurrently
concurrencyVars == <<thresholds, stages, threads>>

\* the state of the NotificationService
notifyVars == <<channels, alertHistory, alertCalls, dispatched>>

\* the state of the collaborators of the analytics components
integrationVars == <<funnel, sf, writeback, created, notifyVars, concurrencyVars>>


----------------------------------------------------------------------------
(* Bounds of the model *)

MaxLeads == 2
MaxOpps == 3
MaxAccounts == 2
MaxCases == 2
MaxChurnOpps == 1
MaxRiskOpps == 5
MaxWon == 41
MaxLost == 62
MaxCreated == 2
MaxAlerts == 3
MaxThreads == 2

----------------------------------------------------------------------------
(* float64 values that may be NaN *)

NaN == [nan |-> TRUE, v |-> 0]
Num(x) == [nan |-> FALSE, v |-> x]

Min2(a, b) == IF a <= b THEN a ELSE b
Max2(a, b) == IF a >= b THEN a ELSE b

\* Series.clip(lo, hi): NaN stays NaN
Clip(x, lo, hi) == IF x.nan THEN x ELSE Num(Max2(lo, Min2(hi, x.v)))

\* Series.fillna(d)
FillNa(x, d) == IF x.nan THEN Num(d) ELSE x

\* a + b on floats: NaN is contagious
Add(a, b) == IF a.nan \/ b.nan THEN NaN ELSE Num(a.v + b.v)

\* x * k for a finite scalar k
Scale(x, k) == IF x.nan THEN NaN ELSE Num(x.v * k)

\* floor division for a positive divisor
FloorDiv(a, b) == a \div b

\* round(a / b) to the nearest integer, ties to even (numpy's rint), b > 0
RoundHalfEven(a, b) ==
    LET q == FloorDiv(a, b)
        r == a - q * b
    IN  IF 2 * r < b THEN q
        ELSE IF 2 * r > b THEN q + 1
        ELSE IF q % 2 = 0 THEN q ELSE q + 1

RECURSIVE SumSeq(_)
SumSeq(s) == IF s = <<>> THEN 0 ELSE Head(s) + SumSeq(Tail(s))

\* the permutations of 1..n, as sequences
Perms(n) == {p \in [1..n -> 1..n] : \A i, j \in 1..n : i # j => p[i] # p[j]}

\* the sequences over S of length 0..n
SeqsUpTo(S, n) == UNION {[1..k -> S] : k \in 0..n}

----------------------------------------------------------------------------
(* Records.  A field of an input dict is a cell: k = "val" (v is the      *)
(* value), "null" (the key is there, its value is None) or "absent" (the  *)
(* dict has no such key).                                                  *)

Val(x) == [k |-> "val", v |-> x]
Null(x) == [k |-> "null", v |-> x]
Absent(x) == [k |-> "absent", v |-> x]

\* pd.DataFrame(records): the frame has a column when some dict has the key
HasCol(df, f) == \E i \in 1..Len(df) : df[i][f].k # "absent"

\* a numeric column: a None or a key the dict lacks reads NaN
NumCol(df, f) == [i \in 1..Len(df) |-> IF df[i][f].k = "val" THEN Num(df[i][f].v) ELSE NaN]

\* pd.Series(dtype=float): no labels, every row reads NaN after alignment
EmptySeries(n) == [i \in 1..n |-> NaN]

\* pd.Series(x): one value under label 0, the first row of a RangeIndex
ScalarSeries(n, x) == [i \in 1..n |-> IF i = 1 THEN Num(x) ELSE NaN]

----------------------------------------------------------------------------
(* LeadScorer *)

\* a sub-score of 1.0
Unit == 60 * 1000

WeightNames == {"company_size", "engagement_score", "industry_match",
                "budget_range", "response_time_days", "email_opens"}

\* ANALYTICS_CONFIG["lead_score_weights"], in thousandths
DefaultWeights ==
    [company_size |-> 200, engagement_score |-> 250, industry_match |-> 150,
     budget_range |-> 200, response_time_days |-> 100, email_opens |-> 100]

\* a mapping that weighs the industry match alone
IndustryOnly(w) ==
    [company_size |-> 0, engagement_score |-> 0, industry_match |-> w,
     budget_range |-> 0, response_time_days |-> 0, email_opens |-> 0]

\* the weights argument of LeadScorer(weights): weights=None, or a mapping
WeightArgs ==
    {[given |-> FALSE, w |-> DefaultWeights]}
    \cup {[given |-> TRUE, w |-> IndustryOnly(w)] :
            w \in {300, 1000, 2000}}

\* LeadScorer.__init__: self.weights = weights or the configured default
LeadScorerInit(arg) == IF arg.given THEN arg.w ELSE DefaultWeights

\* np.log1p(e) / np.log1p(10000) in units of Unit, for the employee counts of the model
Log1pEmployees(e) ==
    CASE e = 0 -> 0
      [] e = 1 -> 4515
      [] e = 5 -> 11672
      [] e = 5000 -> 55485
      [] e = 10000 -> 60000
      [] e = 50000 -> 70484

\* np.log1p(r) / np.log1p(100000000) in units of Unit, for the revenues of the model
Log1pRevenue(r) ==
    CASE r = 0 -> 0
      [] r = 50000 -> 35242
      [] r = 50000000 -> 57742
      [] r = 100000000 -> 60000
      [] r = 1000000000 -> 67500

\* _score_company_size
ScoreCompanySize(df) ==
    LET n == Len(df)
        employees == IF HasCol(df, "NumberOfEmployees")
                     THEN [i \in 1..n |-> FillNa(NumCol(df, "NumberOfEmployees")[i], 1)]
                     ELSE EmptySeries(n)
    IN  [i \in 1..n |-> IF employees[i].nan THEN NaN
                        ELSE Num(Log1pEmployees(employees[i].v))]

\* _score_engagement
ScoreEngagement(df) ==
    LET n == Len(df)
        visits == IF HasCol(df, "Website_Visits__c")
                  THEN [i \in 1..n |-> FillNa(NumCol(df, "Website_Visits__c")[i], 0)]
                  ELSE ScalarSeries(n, 0)
        downloads == IF HasCol(df, "Content_Downloads__c")
                     THEN [i \in 1..n |-> FillNa(NumCol(df, "Content_Downloads__c")[i], 0)]
                     ELSE ScalarSeries(n, 0)
    IN  [i \in 1..n |->
            Clip(Add(Scale(visits[i], 720), Scale(downloads[i], 2400)), 0, Unit)]

TargetIndustries == {"Technology", "Finance", "Healthcare", "Consulting"}

\* _score_industry
ScoreIndustry(df) ==
    LET n == Len(df)
        industry(i) == IF df[i].Industry.k = "val" THEN df[i].Industry.v ELSE ""
        score(x) == IF x \in TargetIndustries THEN Unit ELSE (4 * Unit) \div 10
    IN  IF HasCol(df, "Industry")
        THEN [i \in 1..n |-> Num(score(industry(i)))]
        ELSE [i \in 1..n |-> IF i = 1 THEN Num(score("")) ELSE NaN]

\* _score_budget
ScoreBudget(df) ==
    LET n == Len(df)
        revenue == IF HasCol(df, "AnnualRevenue")
                   THEN [i \in 1..n |-> FillNa(NumCol(df, "AnnualRevenue")[i], 0)]
                   ELSE EmptySeries(n)
    IN  [i \in 1..n |-> IF revenue[i].nan THEN NaN
                        ELSE Clip(Num(Log1pRevenue(revenue[i].v)), 0, Unit)]

\* _score_response_time
ScoreResponseTime(df) ==
    LET n == Len(df)
        days == IF HasCol(df, "Days_Since_Last_Activity__c")
                THEN [i \in 1..n |-> FillNa(NumCol(df, "Days_Since_Last_Activity__c")[i], 30)]
                ELSE ScalarSeries(n, 30)
    IN  [i \in 1..n |-> IF days[i].nan THEN NaN
                        ELSE Clip(Num(Unit - days[i].v * 1000), 0, Unit)]

\* _score_email_activity
ScoreEmailActivity(df) ==
    LET n == Len(df)
        opens == IF HasCol(df, "Email_Opens__c")
                 THEN [i \in 1..n |-> FillNa(NumCol(df, "Email_Opens__c")[i], 0)]
                 ELSE ScalarSeries(n, 0)
    IN  [i \in 1..n |-> Clip(Scale(opens[i], 2000), 0, Unit)]

\* the six sub-score columns score_leads computes, by the name of their weight
SubScores(df) ==
    [company_size |-> ScoreCompanySize(df),
     engagement_score |-> ScoreEngagement(df),
     industry_match |-> ScoreIndustry(df),
     budget_range |-> ScoreBudget(df),
     response_time_days |-> ScoreResponseTime(df),
     email_opens |-> ScoreEmailActivity(df)]

\* the weighted sum * 100, clipped to [0, 100] and rounded to one decimal:
\* the Lead_Score column in tenths of a point
LeadScoreColumn(df, w) ==
    LET n == Len(df)
        cs == ScoreCompanySize(df)
        en == ScoreEngagement(df)
        ind == ScoreIndustry(df)
        bu == ScoreBudget(df)
        rt == ScoreResponseTime(df)
        em == ScoreEmailActivity(df)
        raw(i) == Add(Add(Add(Scale(cs[i], w.company_size),
                              Scale(en[i], w.engagement_score)),
                          Add(Scale(ind[i], w.industry_match),
                              Scale(bu[i], w.budget_range))),
                      Add(Scale(rt[i], w.response_time_days),
                          Scale(em[i], w.email_opens)))
        clipped(i) == Clip(raw(i), 0, Unit * 1000)
    IN  [i \in 1..n |-> IF clipped(i).nan THEN NaN
                        ELSE Num(RoundHalfEven(clipped(i).v, Unit))]

\* pd.cut with right=False: the bins closed on the left
PriorityCutLeftClosed(s) ==
    IF s.nan THEN "NaN"
    ELSE IF s.v >= -10 /\ s.v < 300 THEN "Low"
    ELSE IF s.v >= 300 /\ s.v < 600 THEN "Medium"
    ELSE IF s.v >= 600 /\ s.v < 800 THEN "High"
    ELSE IF s.v >= 800 /\ s.v < 1010 THEN "Critical"
    ELSE "NaN"

\* pd.cut(score, bins=[-1, 30, 60, 80, 101], labels=[Low, Medium, High, Critical]):
\* right-closed bins; a score outside every bin, or NaN, gets the missing label
PriorityCut(s) ==
    IF s.nan THEN "NaN"
    ELSE IF s.v > -10 /\ s.v <= 300 THEN "Low"
    ELSE IF s.v > 300 /\ s.v <= 600 THEN "Medium"
    ELSE IF s.v > 600 /\ s.v <= 800 THEN "High"
    ELSE IF s.v > 800 /\ s.v <= 1010 THEN "Critical"
    ELSE "NaN"

\* df.sort_values(col, ascending=False): values descending, NaN last
SortedDescending(col) ==
    \A i \in 1..(Len(col) - 1) :
        /\ col[i].nan => col[i + 1].nan
        /\ (~col[i].nan /\ ~col[i + 1].nan) => col[i].v >= col[i + 1].v

\* a frame that keeps only the leads whose score is a number (dropna)
LeadRowsDroppingUnscored(leads, w) ==
    LET s == LeadScoreColumn(leads, w)
        F[k \in 0..Len(leads)] == IF k = 0 THEN <<>>
                                   ELSE IF s[k].nan THEN F[k - 1] ELSE Append(F[k - 1], k)
        kept == F[Len(leads)]
    IN  [k \in 1..Len(kept) |->
            [idx |-> kept[k], rec |-> leads[kept[k]], Lead_Score |-> s[kept[k]],
             Priority |-> PriorityCut(s[kept[k]])]]

\* the rows score_leads puts into the frame, in input order
LeadRows(leads, w) ==
    LET s == LeadScoreColumn(leads, w)
    IN  [i \in 1..Len(leads) |->
            [idx |-> i, rec |-> leads[i], Lead_Score |-> s[i], Priority |-> PriorityCut(s[i])]]

\* the orders sort_values may leave the rows in (the default sort is not stable)
SortOrders(rows, key(_)) ==
    {p \in Perms(Len(rows)) :
        SortedDescending([i \in 1..Len(rows) |-> key(rows[p[i]])])}

LeadScoreOf(row) == row.Lead_Score

\* score_leads: the frames it may return
ScoreLeadsFrames(leads, w) ==
    IF leads = <<>> THEN {<<>>}
    ELSE LET rows == LeadRows(leads, w)
         IN  {[i \in 1..Len(rows) |-> rows[p[i]]] : p \in SortOrders(rows, LeadScoreOf)}

\* get_top_leads: scored.head(top_n) of a frame score_leads returned
HeadRows(frame, top_n) == SubSeq(frame, 1, Min2(top_n, Len(frame)))

\* the Lead_Score values of a frame that are not NaN, in frame order
FiniteScores(frame) ==
    LET F[k \in 0..Len(frame)] ==
            IF k = 0 THEN <<>>
            ELSE IF frame[k].Lead_Score.nan THEN F[k - 1]
            ELSE Append(F[k - 1], frame[k].Lead_Score.v)
    IN  F[Len(frame)]

\* round(Series.mean(), 1): NaN is skipped, and the mean of nothing is NaN
MeanScore(frame) ==
    LET xs == FiniteScores(frame)
    IN  IF xs = <<>> THEN NaN ELSE Num(RoundHalfEven(SumSeq(xs), Len(xs)))

\* round(Series.median(), 1) of a frame sorted by score
MedianScore(frame) ==
    LET xs == FiniteScores(frame)
        m == Len(xs)
    IN  IF m = 0 THEN NaN
        ELSE IF m % 2 = 1 THEN Num(xs[(m + 1) \div 2])
        ELSE Num(RoundHalfEven(xs[m \div 2] + xs[m \div 2 + 1], 2))

Priorities == <<"Low", "Medium", "High", "Critical">>

CountRows(frame, P(_)) == Cardinality({i \in 1..Len(frame) : P(frame[i])})

\* scored["Priority"].value_counts(): one count per category, NaN not counted
PriorityBreakdown(frame) ==
    [p \in {Priorities[i] : i \in 1..4} |->
        Cardinality({i \in 1..Len(frame) : frame[i].Priority = p})]

\* the bands cut at the whole numbers their labels name: 0-30, 31-60, 61-80, 81-100
ScoreRangesByLabel(frame) ==
    LET s(i) == frame[i].Lead_Score
        rows == 1..Len(frame)
    IN  [band_0_30 |-> Cardinality({i \in rows : ~s(i).nan /\ s(i).v <= 300}),
         band_31_60 |-> Cardinality({i \in rows : ~s(i).nan /\ s(i).v >= 310 /\ s(i).v <= 600}),
         band_61_80 |-> Cardinality({i \in rows : ~s(i).nan /\ s(i).v >= 610 /\ s(i).v <= 800}),
         band_81_100 |-> Cardinality({i \in rows : ~s(i).nan /\ s(i).v >= 810})]

\* the four score bands; a comparison with NaN is false
ScoreRanges(frame) ==
    LET s(i) == frame[i].Lead_Score
        rows == 1..Len(frame)
    IN  [band_0_30 |-> Cardinality({i \in rows : ~s(i).nan /\ s(i).v <= 300}),
         band_31_60 |-> Cardinality({i \in rows : ~s(i).nan /\ s(i).v > 300 /\ s(i).v <= 600}),
         band_61_80 |-> Cardinality({i \in rows : ~s(i).nan /\ s(i).v > 600 /\ s(i).v <= 800}),
         band_81_100 |-> Cardinality({i \in rows : ~s(i).nan /\ s(i).v > 800})]

NoDist ==
    [raised |-> FALSE, total_leads |-> 0, average_score |-> NaN, median_score |-> NaN,
     priority_breakdown |-> PriorityBreakdown(<<>>), score_ranges |-> ScoreRanges(<<>>)]

\* get_score_distribution on a frame score_leads returned.  The frame of no
\* leads has no column at all, and scored["Lead_Score"] raises KeyError
ScoreDistribution(frame) ==
    IF frame = <<>> THEN [NoDist EXCEPT !.raised = TRUE]
    ELSE [raised |-> FALSE,
          total_leads |-> Len(frame),
          average_score |-> MeanScore(frame),
          median_score |-> MedianScore(frame),
          priority_breakdown |-> PriorityBreakdown(frame),
          score_ranges |-> ScoreRanges(frame)]

----------------------------------------------------------------------------
(* Lead inputs of the model *)

\* the two leads of test_high_engagement_leads_score_higher
HotLead ==
    [Id |-> 1, Industry |-> Val("Technology"),
     NumberOfEmployees |-> Val(5000), AnnualRevenue |-> Val(50000000),
     Website_Visits__c |-> Val(45), Email_Opens__c |-> Val(25),
     Content_Downloads__c |-> Val(8), Days_Since_Last_Activity__c |-> Val(2)]

ColdLead ==
    [Id |-> 2, Industry |-> Val("Other"),
     NumberOfEmployees |-> Val(5), AnnualRevenue |-> Val(50000),
     Website_Visits__c |-> Val(0), Email_Opens__c |-> Val(0),
     Content_Downloads__c |-> Val(0), Days_Since_Last_Activity__c |-> Val(55)]

\* a lead whose figures are beyond the scale of every sub-score
BigLead ==
    [Id |-> 3, Industry |-> Val("Finance"),
     NumberOfEmployees |-> Val(50000), AnnualRevenue |-> Val(1000000000),
     Website_Visits__c |-> Val(100), Email_Opens__c |-> Val(60),
     Content_Downloads__c |-> Val(20), Days_Since_Last_Activity__c |-> Val(0)]

ScoringFields ==
    {"Industry", "NumberOfEmployees", "AnnualRevenue", "Website_Visits__c",
     "Email_Opens__c", "Content_Downloads__c", "Days_Since_Last_Activity__c"}

Blank(f, kind) == IF f = "Industry" THEN [k |-> kind, v |-> ""] ELSE [k |-> kind, v |-> 0]

\* the three leads as they are, the first with one scoring field absent, and
\* the first with one scoring field None
LeadPool ==
    {HotLead, ColdLead, BigLead}
    \cup {[HotLead EXCEPT ![f] = Blank(f, "absent")] : f \in ScoringFields}
    \cup {[HotLead EXCEPT ![f] = Blank(f, "null")] :
            f \in {"Industry", "NumberOfEmployees", "Days_Since_Last_Activity__c"}}

LeadInputs == SeqsUpTo(LeadPool, MaxLeads)

NoFrame == <<>>
NoPrev == [has |-> FALSE, of |-> <<>>]

\* the score and the priority a frame holds for each lead, by the lead's place
\* in the input (the frame's index label)
ByLead(frame) ==
    [i \in 1..Len(frame) |->
        LET row == frame[CHOOSE k \in 1..Len(frame) : frame[k].idx = i]
        IN  [Lead_Score |-> row.Lead_Score, Priority |-> row.Priority]]
NoTop == [top_n |-> 0, rows |-> <<>>]

----------------------------------------------------------------------------
(* LeadScorer: the operations *)

\* LeadScorer(weights): a scorer is constructed, nothing has been called on it
NewLeadScorer(arg) ==
    /\ pc = "idle"
    /\ weights' = LeadScorerInit(arg)
    /\ UNCHANGED integrationVars
    /\ UNCHANGED <<pc, leadsIn, scored, prevScored, topLeads, dist,
                   oppsIn, analysis, accountsIn, casesIn, churn, summary>>

\* score_leads that rescales self.weights in place to the weight it has used
ScoreLeadsWritingWeights(leads) ==
    /\ pc \in {"idle", "score_leads"}
    /\ pc' = "score_leads"
    /\ leadsIn' = leads
    /\ scored' \in ScoreLeadsFrames(leads, weights)
    /\ prevScored' = IF pc = "score_leads" THEN [has |-> TRUE, of |-> ByLead(scored)] ELSE NoPrev
    /\ weights' = [f \in DOMAIN weights |-> weights[f] \div 2]
    /\ UNCHANGED integrationVars
    /\ UNCHANGED <<topLeads, dist, oppsIn, analysis, accountsIn, casesIn, churn, summary>>

\* score_leads(leads); a call that follows a score_leads keeps what that one returned
ScoreLeads(leads) ==
    /\ pc \in {"idle", "score_leads"}
    /\ pc' = "score_leads"
    /\ leadsIn' = leads
    /\ scored' \in ScoreLeadsFrames(leads, weights)
    /\ prevScored' = IF pc = "score_leads" THEN [has |-> TRUE, of |-> ByLead(scored)] ELSE NoPrev
    /\ UNCHANGED integrationVars
    /\ UNCHANGED <<weights, topLeads, dist,
                   oppsIn, analysis, accountsIn, casesIn, churn, summary>>

\* get_top_leads(leads, top_n)
GetTopLeads(leads, top_n) ==
    /\ pc = "idle"
    /\ pc' = "get_top_leads"
    /\ leadsIn' = leads
    /\ \E frame \in ScoreLeadsFrames(leads, weights) :
          topLeads' = [top_n |-> top_n, rows |-> HeadRows(frame, top_n)]
    /\ UNCHANGED integrationVars
    /\ UNCHANGED <<weights, scored, prevScored, dist,
                   oppsIn, analysis, accountsIn, casesIn, churn, summary>>

\* get_score_distribution(leads)
GetScoreDistribution(leads) ==
    /\ pc = "idle"
    /\ pc' = "get_score_distribution"
    /\ leadsIn' = leads
    /\ \E frame \in ScoreLeadsFrames(leads, weights) : dist' = ScoreDistribution(frame)
    /\ UNCHANGED integrationVars
    /\ UNCHANGED <<weights, scored, prevScored, topLeads,
                   oppsIn, analysis, accountsIn, casesIn, churn, summary>>

----------------------------------------------------------------------------
(* PipelineAnalyser *)

\* ANALYTICS_CONFIG["pipeline_health_stages"]
Stages == <<"Prospecting", "Qualification", "Needs Analysis", "Proposal",
            "Negotiation", "Closed Won", "Closed Lost">>

RECURSIVE Gcd(_, _)
Gcd(a, b) == IF b = 0 THEN a ELSE Gcd(b, a % b)
Lcm(a, b) == (a * b) \div Gcd(a, b)

\* an exact quotient, as the pair it is computed from
Ratio(num, den) == [num |-> num, den |-> den]

Rows(df) == 1..Len(df)

\* the rows of S in frame order
RowSeq(S, n) ==
    LET F[k \in 0..n] == IF k = 0 THEN <<>>
                         ELSE IF k \in S THEN Append(F[k - 1], k) ELSE F[k - 1]
    IN  F[n]

\* the sum of f over a set of rows
SumOver(S, f(_)) ==
    LET RECURSIVE Go(_)
        Go(T) == IF T = {} THEN 0
                 ELSE LET i == CHOOSE x \in T : TRUE IN f(i) + Go(T \ {i})
    IN  Go(S)

\* pd.to_numeric(column, errors="coerce").fillna(0): None and a missing key read 0
Coerced(df, f, i) == IF df[i][f].k = "val" THEN df[i][f].v ELSE 0

\* df[col == flag] for a boolean column: None and a missing key equal neither flag
FlagRows(df, f, flag) == {i \in Rows(df) : df[i][f].k = "val" /\ df[i][f].v = flag}

OpenRows(df) == FlagRows(df, "IsClosed", FALSE)
ClosedRows(df) == FlagRows(df, "IsClosed", TRUE)
WonRows(df) == FlagRows(df, "IsWon", TRUE)

StageRows(df, stage) ==
    {i \in Rows(df) : df[i].StageName.k = "val" /\ df[i].StageName.v = stage}

\* whether analyse_pipeline raises on a frame with rows:
\*  - df.get("Amount", 0) and df.get("Probability", 0) are the scalar 0 when the
\*    column is missing, and pd.to_numeric(0) has no fillna;
\*  - df["StageName"] needs the column;
\*  - df.get("IsClosed", False) == False is the scalar True when the column is
\*    missing (and == True is False for IsWon), and df[True] is a KeyError;
\*  - without a Days_In_Stage__c column _identify_risks indexes the open rows by
\*    pd.Series(0) > 30, a boolean Series labelled 0 alone, which cannot be
\*    aligned with an open row under another label.
PipelineRaises(df) ==
    \/ ~HasCol(df, "Amount")
    \/ ~HasCol(df, "Probability")
    \/ ~HasCol(df, "StageName")
    \/ ~HasCol(df, "IsClosed")
    \/ ~HasCol(df, "IsWon")
    \/ (~HasCol(df, "Days_In_Stage__c") /\ \E i \in OpenRows(df) : i # 1)

\* _stage_summary
StageSummary(df) ==
    LET amount(i) == Coerced(df, "Amount", i)
        weighted(i) == Coerced(df, "Amount", i) * Coerced(df, "Probability", i)
    IN  [s \in 1..Len(stages) |->
            LET rows == StageRows(df, stages[s])
            IN  [stage |-> stages[s],
                 count |-> Cardinality(rows),
                 total_value |-> SumOver(rows, amount),
                 avg_value |-> IF Cardinality(rows) > 0
                               THEN Ratio(SumOver(rows, amount), Cardinality(rows))
                               ELSE Ratio(0, 1),
                 \* in hundredths
                 weighted_value |-> SumOver(rows, weighted)]]

\* Days_In_Stage__c with fillna(d), NaN for every row when the column is missing
DaysFilled(df, d, i) ==
    IF df[i].Days_In_Stage__c.k = "val" THEN df[i].Days_In_Stage__c.v ELSE d

\* the median of the values f takes on 1..n, as a quotient
MedianOver(n, f(_)) ==
    LET below(i) == Cardinality({j \in 1..n : f(j) < f(i) \/ (f(j) = f(i) /\ j < i)})
        at(k) == f(CHOOSE i \in 1..n : below(i) = k - 1)
    IN  IF n % 2 = 1 THEN Ratio(at((n + 1) \div 2), 1)
        ELSE Ratio(at(n \div 2) + at(n \div 2 + 1), 2)

\* _velocity_metrics
VelocityMetrics(df) ==
    LET n == Len(df)
        amount(i) == Coerced(df, "Amount", i)
        days(i) == DaysFilled(df, 0, i)
        has == HasCol(df, "Days_In_Stage__c")
        won == WonRows(df)
    IN  [avg_days_in_current_stage |->
             IF has THEN [nan |-> FALSE, q |-> Ratio(SumOver(Rows(df), days), n)]
             ELSE [nan |-> TRUE, q |-> Ratio(0, 1)],
         median_days_in_stage |->
             IF has THEN [nan |-> FALSE, q |-> MedianOver(n, days)]
             ELSE [nan |-> TRUE, q |-> Ratio(0, 1)],
         open_deals |-> Cardinality(OpenRows(df)),
         open_pipeline_value |-> SumOver(OpenRows(df), amount),
         closed_won_count |-> Cardinality(won),
         closed_won_value |-> SumOver(won, amount),
         avg_deal_size |-> IF Cardinality(won) > 0
                           THEN Ratio(SumOver(won, amount), Cardinality(won))
                           ELSE Ratio(0, 1)]

\* _forecast: a frame with a ForecastCategory column compares each row's own
\* value, and None or a missing key equals no category
Forecast(df) ==
    LET open == OpenRows(df)
        amount(i) == Coerced(df, "Amount", i)
        weighted(i) == Coerced(df, "Amount", i) * Coerced(df, "Probability", i)
        category(i) == IF ~HasCol(df, "ForecastCategory") THEN "Pipeline"
                       ELSE IF df[i].ForecastCategory.k = "val" THEN df[i].ForecastCategory.v
                       ELSE "NaN"
        bucket(c) == SumOver({i \in open : category(i) = c}, amount)
    IN  IF open = {}
        THEN [best_case |-> 0, commit |-> 0, pipeline |-> 0, total_weighted |-> 0]
        ELSE [best_case |-> bucket("Best Case"),
              commit |-> bucket("Commit"),
              pipeline |-> bucket("Pipeline"),
              \* in hundredths
              total_weighted |-> SumOver(open, weighted)]

\* the assumed quarterly quota of _calculate_health_score
Quota == 500 * 1000

\* late stages that count every closed deal, lost ones too
LateStagesWithLost == {"Proposal", "Negotiation", "Closed Won", "Closed Lost"}

LateStages == {"Proposal", "Negotiation", "Closed Won"}

\* the thresholds taken as strict lower bounds
RatingStrict(total) ==
    IF total > 750 THEN "Excellent"
    ELSE IF total > 550 THEN "Good"
    ELSE IF total > 350 THEN "Fair"
    ELSE "Poor"

\* the rating of a total in tenths
Rating(total) ==
    IF total >= 750 THEN "Excellent"
    ELSE IF total >= 550 THEN "Good"
    ELSE IF total >= 350 THEN "Fair"
    ELSE "Poor"

\* _calculate_health_score: the four components as quotients of tenths of a
\* point, their sum rounded to one decimal
CalculateHealthScore(df) ==
    LET n == Len(df)
        amount(i) == Coerced(df, "Amount", i)
        open_value == SumOver(OpenRows(df), amount)
        coverage == Ratio(Min2(open_value, Quota), Quota \div 250)
        staged == {i \in Rows(df) : df[i].StageName.k = "val"}
        late == {i \in staged : df[i].StageName.v \in LateStages}
        distribution == IF staged = {} THEN Ratio(0, 1)
                        ELSE Ratio(250 * Cardinality(late), Cardinality(staged))
        closed == ClosedRows(df)
        won == closed \cap WonRows(df)
        win_rate == IF closed = {} THEN Ratio(125, 1)
                    ELSE Ratio(250 * Cardinality(won), Cardinality(closed))
        days(i) == DaysFilled(df, 30, i)
        sum_days == IF HasCol(df, "Days_In_Stage__c") THEN SumOver(Rows(df), days)
                    ELSE 30 * n
        velocity == Ratio(25 * Max2(0, 60 * n - sum_days), 6 * n)
        parts == <<coverage, distribution, win_rate, velocity>>
        den == 6000 * Lcm(Lcm(distribution.den, win_rate.den), n)
        num == SumSeq([k \in 1..4 |-> parts[k].num * (den \div parts[k].den)])
        total == RoundHalfEven(num, den)
        rounded(q) == RoundHalfEven(q.num, q.den)
    IN  [score |-> total,
         rating |-> Rating(total),
         breakdown |-> [coverage |-> rounded(coverage),
                        distribution |-> rounded(distribution),
                        win_rate |-> rounded(win_rate),
                        velocity |-> rounded(velocity)]]

\* the greatest value f takes on a non-empty set of rows
MaxOver(S, f(_)) == f(CHOOSE i \in S : \A j \in S : f(j) <= f(i))

\* findings drawn from every deal, the closed ones included
IdentifyRisksOverAllDeals(df) ==
    LET all == Rows(df)
        amount(i) == Coerced(df, "Amount", i)
        stalled == IF HasCol(df, "Days_In_Stage__c")
                   THEN {i \in all : DaysFilled(df, 0, i) > 30}
                   ELSE {}
        all_sum == SumOver(all, amount)
        early == {i \in all : df[i].StageName.k = "val"
                              /\ df[i].StageName.v \in {"Prospecting", "Qualification"}}
    IN  (IF Cardinality(stalled) > 0
         THEN <<[type |-> "Stalled Deals", severity |-> "High",
                 count |-> Cardinality(stalled), value |-> SumOver(stalled, amount)]>>
         ELSE <<>>)
        \o (IF all_sum > 0 /\ 10 * MaxOver(all, amount) > 4 * all_sum
            THEN <<[type |-> "Concentration Risk", severity |-> "Medium"]>>
            ELSE <<>>)
        \o (IF Cardinality(early) < 5
            THEN <<[type |-> "Thin Top of Funnel", severity |-> "Medium",
                    count |-> Cardinality(early)]>>
            ELSE <<>>)

\* _identify_risks (the message of a finding is left out: it is formatted
\* from the count and the value of the same finding)
IdentifyRisks(df) ==
    LET open == OpenRows(df)
        amount(i) == Coerced(df, "Amount", i)
        stalled == IF HasCol(df, "Days_In_Stage__c")
                   THEN {i \in open : DaysFilled(df, 0, i) > 30}
                   ELSE {}
        open_sum == SumOver(open, amount)
        early == {i \in open : df[i].StageName.k = "val"
                               /\ df[i].StageName.v \in {"Prospecting", "Qualification"}}
        stalledRisk ==
            IF Cardinality(stalled) > 0
            THEN <<[type |-> "Stalled Deals", severity |-> "High",
                    count |-> Cardinality(stalled), value |-> SumOver(stalled, amount)]>>
            ELSE <<>>
        concentrationRisk ==
            IF Cardinality(open) > 0 /\ open_sum > 0 /\ 10 * MaxOver(open, amount) > 4 * open_sum
            THEN <<[type |-> "Concentration Risk", severity |-> "Medium"]>>
            ELSE <<>>
        thinRisk ==
            IF Cardinality(early) < 5
            THEN <<[type |-> "Thin Top of Funnel", severity |-> "Medium",
                    count |-> Cardinality(early)]>>
            ELSE <<>>
    IN  stalledRisk \o concentrationRisk \o thinRisk

\* the advice _generate_recommendations gives for a finding, by its first words
Advice(type) ==
    CASE type = "Stalled Deals" -> "Review stalled deals"
      [] type = "Concentration Risk" -> "Diversify pipeline"
      [] type = "Thin Top of Funnel" -> "Increase prospecting activity"

\* recommendations that take a win-rate sub-score of 12.5 for one below target
GenerateRecommendationsAtHalf(df) ==
    LET risks == IdentifyRisks(df)
        health == CalculateHealthScore(df)
    IN  [k \in 1..Len(risks) |-> Advice(risks[k].type)]
        \o (IF health.breakdown.win_rate <= 125
            THEN <<"Win rate is below target">>
            ELSE <<>>)

\* _generate_recommendations
GenerateRecommendations(df) ==
    LET risks == IdentifyRisks(df)
        health == CalculateHealthScore(df)
    IN  [k \in 1..Len(risks) |-> Advice(risks[k].type)]
        \o (IF health.breakdown.win_rate < 100
            THEN <<"Win rate is below target">>
            ELSE <<>>)

\* an empty result that lists no recommendation
EmptyResultWithoutAdvice ==
    [kind |-> "empty",
     stage_summary |-> <<>>,
     velocity_metrics |-> <<>>,
     forecast |-> <<>>,
     health_score |-> [score |-> 0, rating |-> "No Data", breakdown |-> <<>>],
     risk_indicators |-> <<>>,
     recommendations |-> <<>>]

\* _empty_result
EmptyResult ==
    [kind |-> "empty",
     stage_summary |-> <<>>,
     velocity_metrics |-> <<>>,
     forecast |-> <<>>,
     health_score |-> [score |-> 0, rating |-> "No Data", breakdown |-> <<>>],
     risk_indicators |-> <<>>,
     recommendations |-> <<"No opportunity data available for analysis.">>]

\* analyse_pipeline: what the call returns, or that it raised
AnalysePipelineResult(opportunities) ==
    IF opportunities = <<>> THEN EmptyResult
    ELSE IF PipelineRaises(opportunities) THEN [kind |-> "raised"]
    ELSE [kind |-> "full",
          stage_summary |-> StageSummary(opportunities),
          velocity_metrics |-> VelocityMetrics(opportunities),
          forecast |-> Forecast(opportunities),
          health_score |-> CalculateHealthScore(opportunities),
          risk_indicators |-> IdentifyRisks(opportunities),
          recommendations |-> GenerateRecommendations(opportunities)]

NoAnalysis == [kind |-> "none"]

----------------------------------------------------------------------------
(* Opportunity inputs of the model *)

Opp(id, account, stage, closed, won, amount, probability, days, category) ==
    [Id |-> id, AccountId |-> Val(account), StageName |-> Val(stage),
     IsClosed |-> Val(closed), IsWon |-> Val(won), Amount |-> Val(amount),
     Probability |-> Val(probability), Days_In_Stage__c |-> Val(days),
     ForecastCategory |-> Val(category)]

EarlyOpp == Opp(1, 1, "Prospecting", FALSE, FALSE, 200000, 10, 30, "Pipeline")
StalledOpp == Opp(2, 1, "Qualification", FALSE, FALSE, 50000, 20, 45, "Omitted")
ProposalOpp == Opp(3, 1, "Proposal", FALSE, FALSE, 100000, 60, 30, "Best Case")
NegotiationOpp == Opp(4, 2, "Negotiation", FALSE, FALSE, 500000, 80, 30, "Commit")
WonOpp == Opp(5, 2, "Closed Won", TRUE, TRUE, 200000, 100, 0, "Closed")
LostOpp == Opp(6, 1, "Closed Lost", TRUE, FALSE, 50000, 0, 90, "Omitted")
FreshLostOpp == Opp(8, 2, "Closed Lost", TRUE, FALSE, 80000, 0, 12, "Omitted")

OppFields ==
    {"StageName", "IsClosed", "IsWon", "Amount", "Probability",
     "Days_In_Stage__c", "ForecastCategory"}

BlankOpp(f, kind) ==
    IF f \in {"StageName", "ForecastCategory"} THEN [k |-> kind, v |-> ""]
    ELSE IF f \in {"IsClosed", "IsWon"} THEN [k |-> kind, v |-> FALSE]
    ELSE [k |-> kind, v |-> 0]

\* the seven opportunities as they are, the first with one field absent, and the
\* first with one field None
OppPool ==
    {EarlyOpp, StalledOpp, ProposalOpp, NegotiationOpp, WonOpp, LostOpp, FreshLostOpp}
    \cup {[EarlyOpp EXCEPT ![f] = BlankOpp(f, "absent")] : f \in OppFields}
    \cup {[EarlyOpp EXCEPT ![f] = BlankOpp(f, "null")] :
            f \in {"StageName", "IsClosed", "Amount", "Days_In_Stage__c"}}

OppInputs == SeqsUpTo(OppPool, MaxOpps)

\* longer pipelines of fewer kinds of deal: enough open deals to fill the top
\* of the funnel, beside a closed deal that has sat in its stage for 90 days
RiskOppPool == {EarlyOpp, StalledOpp, NegotiationOpp, LostOpp}

RiskOppInputs == SeqsUpTo(RiskOppPool, MaxRiskOpps)

\* a pipeline of closed deals alone: won of them won, then lost of them lost
ClosedPipeline(won, lost) ==
    [i \in 1..(won + lost) |-> IF i <= won THEN WonOpp ELSE LostOpp]

----------------------------------------------------------------------------
(* PipelineAnalyser: the operations *)

\* analyse_pipeline(opportunities)
AnalysePipeline(opportunities) ==
    /\ pc = "idle"
    /\ pc' = "analyse_pipeline"
    /\ oppsIn' = opportunities
    /\ analysis' = AnalysePipelineResult(opportunities)
    /\ UNCHANGED integrationVars
    /\ UNCHANGED <<weights, leadsIn, scored, prevScored, topLeads, dist,
                   accountsIn, casesIn, churn, summary>>

----------------------------------------------------------------------------
(* ChurnPredictor.  A sub-score is an exact quotient in [0, 1]; the        *)
(* LastActivityDate of an account is held as the whole days from that date *)
(* to the call's pd.Timestamp.now(), negative for a date in the future.    *)

\* ANALYTICS_CONFIG["churn_risk_thresholds"], in thousandths
ThresholdHigh == 700
ThresholdMedium == 400

\* the cases whose AccountId is the Id of the account
CasesOf(cases, account) ==
    {j \in Rows(cases) : cases[j].AccountId.k = "val" /\ cases[j].AccountId.v = account.Id}

\* _case_risk_score
CaseRiskScore(accounts, cases) ==
    [i \in Rows(accounts) |->
        IF cases = <<>> THEN Ratio(0, 1)
        ELSE LET mine == CasesOf(cases, accounts[i])
                 escalated == {j \in mine : cases[j].Priority.k = "val"
                                            /\ cases[j].Priority.v \in {"High", "Critical"}}
             IN  Ratio(3 * Min2(Cardinality(mine), 10) + 10 * Min2(Cardinality(escalated), 3),
                       60)]

\* an engagement risk that is not clipped at 90 days
EngagementRiskScoreUnclipped(accounts) ==
    [i \in Rows(accounts) |->
        IF ~HasCol(accounts, "LastActivityDate") THEN Ratio(3, 10)
        ELSE LET days == IF accounts[i].LastActivityDate.k = "val"
                         THEN accounts[i].LastActivityDate.v ELSE 90
             IN  Ratio(Max2(0, days), 90)]

\* _engagement_risk_score: a date that is None, missing from the dict or not
\* a date is NaT, which fillna(90) reads as 90 days
EngagementRiskScore(accounts) ==
    [i \in Rows(accounts) |->
        IF ~HasCol(accounts, "LastActivityDate") THEN Ratio(3, 10)
        ELSE LET days == IF accounts[i].LastActivityDate.k = "val"
                         THEN accounts[i].LastActivityDate.v ELSE 90
             IN  Ratio(Max2(0, Min2(days, 90)), 90)]

\* _revenue_risk_score
RevenueRiskScore(accounts, opportunities) ==
    [i \in Rows(accounts) |->
        IF opportunities = <<>> THEN Ratio(5, 10)
        ELSE IF WonRows(opportunities) = {} THEN Ratio(6, 10)
        ELSE LET amount(j) == opportunities[j].Amount.v
                 mine == {j \in WonRows(opportunities) :
                             /\ opportunities[j].AccountId.k = "val"
                             /\ opportunities[j].AccountId.v = accounts[i].Id
                             /\ opportunities[j].Amount.k = "val"}
             IN  IF SumOver(mine, amount) > 0 THEN Ratio(2, 10) ELSE Ratio(10, 10)]

\* _satisfaction_risk_score
SatisfactionRiskScore(accounts, cases) ==
    [i \in Rows(accounts) |->
        IF cases = <<>> \/ ~HasCol(cases, "Customer_Satisfaction__c") THEN Ratio(3, 10)
        ELSE LET csat(j) == cases[j].Customer_Satisfaction__c.v
                 rated == {j \in CasesOf(cases, accounts[i]) :
                              cases[j].Customer_Satisfaction__c.k = "val"}
                 k == Cardinality(rated)
             IN  IF k = 0 THEN Ratio(2, 4)
                 ELSE Ratio(Max2(0, Min2(5 * k - SumOver(rated, csat), 4 * k)), 4 * k)]

\* a classification with a fourth level above High
ClassifyRiskFourLevels(score) ==
    IF score >= 800 THEN "Critical"
    ELSE IF score >= thresholds.high THEN "High"
    ELSE IF score >= thresholds.medium THEN "Medium"
    ELSE "Low"

\* _classify_risk, on a score in thousandths
ClassifyRisk(score) ==
    IF score >= thresholds.high THEN "High"
    ELSE IF score >= thresholds.medium THEN "Medium"
    ELSE "Low"

\* sub-score >= 0.6
ReachesThreshold(q) == 10 * q.num >= 6 * q.den

\* sub-score > 0.6
Exceeds(q) == 10 * q.num > 6 * q.den

\* the factors of the sub-scores above 0.6, in the order of the checks
RiskFactorList(case, engagement, revenue, satisfaction) ==
    (IF Exceeds(case) THEN <<"High support case volume or escalations">> ELSE <<>>)
    \o (IF Exceeds(engagement) THEN <<"Low engagement - no recent activity">> ELSE <<>>)
    \o (IF Exceeds(revenue) THEN <<"No recent closed-won opportunities">> ELSE <<>>)
    \o (IF Exceeds(satisfaction) THEN <<"Low customer satisfaction scores">> ELSE <<>>)

\* the factors returned as they are, without the placeholder
IdentifyRiskFactorsNoPlaceholder(case, engagement, revenue, satisfaction) ==
    RiskFactorList(case, engagement, revenue, satisfaction)

\* _identify_risk_factors
IdentifyRiskFactors(case, engagement, revenue, satisfaction) ==
    LET factors == RiskFactorList(case, engagement, revenue, satisfaction)
    IN  IF factors # <<>> THEN factors ELSE <<"No significant risk factors identified">>

\* the composite 0.30 case + 0.25 engagement + 0.25 revenue + 0.20 satisfaction,
\* rounded to three decimals, in thousandths
CompositeRisk(case, engagement, revenue, satisfaction) ==
    LET den == Lcm(Lcm(case.den, engagement.den), Lcm(revenue.den, satisfaction.den))
        num == 300 * case.num * (den \div case.den)
               + 250 * engagement.num * (den \div engagement.den)
               + 250 * revenue.num * (den \div revenue.den)
               + 200 * satisfaction.num * (den \div satisfaction.den)
    IN  RoundHalfEven(num, den)

\* whether predict_churn raises on accounts with rows: the group-bys need their
\* key columns, and opportunities.get("IsWon", False) == True is the scalar
\* False when the column is missing, which opportunities[...] cannot index
ChurnRaises(accounts, cases, opportunities) ==
    \/ cases # <<>> /\ (~HasCol(cases, "AccountId") \/ ~HasCol(cases, "Priority"))
    \/ opportunities # <<>> /\ ~HasCol(opportunities, "IsWon")
    \/ /\ opportunities # <<>>
       /\ WonRows(opportunities) # {}
       /\ (~HasCol(opportunities, "AccountId") \/ ~HasCol(opportunities, "Amount"))

\* the rows predict_churn puts into the frame, in input order
ChurnRows(accounts, cases, opportunities) ==
    LET cr == CaseRiskScore(accounts, cases)
        er == EngagementRiskScore(accounts)
        rr == RevenueRiskScore(accounts, opportunities)
        sr == SatisfactionRiskScore(accounts, cases)
    IN  [i \in Rows(accounts) |->
            LET score == CompositeRisk(cr[i], er[i], rr[i], sr[i])
            IN  [idx |-> i,
                 rec |-> accounts[i],
                 Churn_Risk_Score |-> score,
                 Churn_Risk_Level |-> ClassifyRisk(score),
                 Risk_Factors |-> IdentifyRiskFactors(cr[i], er[i], rr[i], sr[i])]]

ChurnScoreOf(row) == Num(row.Churn_Risk_Score)

\* predict_churn with the case counts joined how="inner": an account without a
\* case drops out of the frame
PredictChurnFramesInner(accounts, cases, opportunities) ==
    IF accounts = <<>> THEN {[kind |-> "frame", rows |-> <<>>]}
    ELSE IF ChurnRaises(accounts, cases, opportunities) THEN {[kind |-> "raised", rows |-> <<>>]}
    ELSE LET all == ChurnRows(accounts, cases, opportunities)
             kept == RowSeq({i \in Rows(accounts) : CasesOf(cases, accounts[i]) # {}},
                            Len(accounts))
             rows == [k \in 1..Len(kept) |-> all[kept[k]]]
         IN  {[kind |-> "frame", rows |-> [i \in 1..Len(rows) |-> rows[p[i]]]] :
                 p \in SortOrders(rows, ChurnScoreOf)}

\* predict_churn: the frames it may return, or that it raised
PredictChurnFrames(accounts, cases, opportunities) ==
    IF accounts = <<>> THEN {[kind |-> "frame", rows |-> <<>>]}
    ELSE IF ChurnRaises(accounts, cases, opportunities) THEN {[kind |-> "raised", rows |-> <<>>]}
    ELSE LET rows == ChurnRows(accounts, cases, opportunities)
         IN  {[kind |-> "frame", rows |-> [i \in 1..Len(rows) |-> rows[p[i]]]] :
                 p \in SortOrders(rows, ChurnScoreOf)}

RiskLevels == {"Low", "Medium", "High"}

\* get_risk_summary on what predict_churn returned
RiskSummary(frame) ==
    IF frame.kind = "raised" THEN [kind |-> "raised"]
    ELSE IF frame.rows = <<>>
    THEN [kind |-> "empty", total_accounts |-> 0, risk_breakdown |-> <<>>]
    ELSE LET rows == frame.rows
             accounts == [i \in 1..Len(rows) |-> rows[i].rec]
             score(i) == rows[i].Churn_Risk_Score
             high == {i \in 1..Len(rows) : rows[i].Churn_Risk_Level = "High"}
             revenue(i) == IF rows[i].rec.AnnualRevenue.k = "val"
                           THEN rows[i].rec.AnnualRevenue.v ELSE 0
             highSeq == RowSeq(high, Len(rows))
         IN  IF \E f \in {"Name", "Industry", "AnnualRevenue"} : ~HasCol(accounts, f)
             THEN [kind |-> "raised"]
             ELSE [kind |-> "summary",
                   total_accounts |-> Len(rows),
                   average_risk_score |->
                       RoundHalfEven(SumOver(1..Len(rows), score), Len(rows)),
                   risk_breakdown |->
                       [level \in RiskLevels |->
                           Cardinality({i \in 1..Len(rows) :
                                           rows[i].Churn_Risk_Level = level})],
                   high_risk_accounts |->
                       [k \in 1..Len(highSeq) |->
                           [Name |-> rows[highSeq[k]].rec.Name,
                            Industry |-> rows[highSeq[k]].rec.Industry,
                            Churn_Risk_Score |-> rows[highSeq[k]].Churn_Risk_Score]],
                   total_revenue_at_risk |-> SumOver(high, revenue)]

NoChurn == [kind |-> "none", rows |-> <<>>]
NoSummary == [kind |-> "none"]

----------------------------------------------------------------------------
(* Churn inputs of the model *)

Account(id, name, industry, revenue, activity) ==
    [Id |-> id, Name |-> Val(name), Industry |-> Val(industry),
     AnnualRevenue |-> Val(revenue), LastActivityDate |-> activity]

DormantAccount == Account(1, "Acme", "Technology", 1000000, Val(100))
ActiveAccount == Account(2, "Globex", "Retail", 250000, Val(10))

AccountPool ==
    {DormantAccount, ActiveAccount,
     [DormantAccount EXCEPT !.LastActivityDate = Absent(0)],
     [ActiveAccount EXCEPT !.LastActivityDate = Null(0)]}

Case(id, account, priority, csat) ==
    [Id |-> id, AccountId |-> Val(account), Priority |-> Val(priority),
     Customer_Satisfaction__c |-> csat]

\* account 9 is no account of the model
CasePool ==
    {Case(1, 1, "High", Val(1)),
     Case(2, 2, "Low", Val(5)),
     Case(3, 9, "Critical", Null(0)),
     Case(4, 1, "Low", Absent(0)),
     Case(5, 9, "Low", Val(5))}

ZeroWonOpp == Opp(7, 1, "Closed Won", TRUE, TRUE, 0, 100, 0, "Closed")

ChurnOppPool == {WonOpp, LostOpp, ZeroWonOpp}

AccountInputs == SeqsUpTo(AccountPool, MaxAccounts)
CaseInputs == SeqsUpTo(CasePool, MaxCases)
ChurnOppInputs == SeqsUpTo(ChurnOppPool, MaxChurnOpps)

----------------------------------------------------------------------------
(* ChurnPredictor: the operations *)

\* a predict_churn that writes the score of an account into the dict it was given
PredictChurnAttachingScores(accounts, cases, opportunities) ==
    /\ pc = "idle"
    /\ pc' = "predict_churn"
    /\ casesIn' = cases
    /\ oppsIn' = opportunities
    /\ \E frame \in PredictChurnFrames(accounts, cases, opportunities) :
          LET scoreOf(i) ==
                  frame.rows[CHOOSE r \in 1..Len(frame.rows) : frame.rows[r].idx = i]
                      .Churn_Risk_Score
              written ==
                  [i \in 1..Len(accounts) |->
                      IF frame.kind = "frame"
                      THEN [f \in DOMAIN accounts[i] \cup {"Churn_Risk_Score"} |->
                               IF f = "Churn_Risk_Score" THEN scoreOf(i) ELSE accounts[i][f]]
                      ELSE accounts[i]]
          IN  /\ churn' = frame
              /\ accountsIn' = written
              /\ sf' = IF sf.mode = "mock" /\ sf.mock_data.accounts = accounts
                       THEN [sf EXCEPT !.mock_data.accounts = written]
                       ELSE sf
    /\ UNCHANGED <<weights, leadsIn, scored, prevScored, topLeads, dist, analysis, summary>>
    /\ UNCHANGED <<funnel, writeback, created>>
    /\ UNCHANGED notifyVars
    /\ UNCHANGED concurrencyVars

\* predict_churn(accounts, cases, opportunities)
PredictChurn(accounts, cases, opportunities) ==
    /\ pc = "idle"
    /\ pc' = "predict_churn"
    /\ accountsIn' = accounts
    /\ casesIn' = cases
    /\ oppsIn' = opportunities
    /\ churn' \in PredictChurnFrames(accounts, cases, opportunities)
    /\ UNCHANGED integrationVars
    /\ UNCHANGED <<weights, leadsIn, scored, prevScored, topLeads, dist, analysis, summary>>

\* get_risk_summary(accounts, cases, opportunities)
GetRiskSummary(accounts, cases, opportunities) ==
    /\ pc = "idle"
    /\ pc' = "get_risk_summary"
    /\ accountsIn' = accounts
    /\ casesIn' = cases
    /\ oppsIn' = opportunities
    /\ \E frame \in PredictChurnFrames(accounts, cases, opportunities) :
          summary' = RiskSummary(frame)
    /\ UNCHANGED integrationVars
    /\ UNCHANGED <<weights, leadsIn, scored, prevScored, topLeads, dist, analysis, churn>>

----------------------------------------------------------------------------
(* The priority tiers and the score bands, on every score of one decimal *)

\* the values a clipped and rounded Lead_Score can take, in tenths
ScoreDomain == 0..(100 * 10)

\* a scored frame of one lead whose Lead_Score is s: the pd.cut of score_leads
FrameOfScore(s) ==
    <<[idx |-> 1, rec |-> HotLead, Lead_Score |-> Num(s), Priority |-> PriorityCut(Num(s))]>>

\* the tier assignment of score_leads and the banding of get_score_distribution,
\* on the frame of one lead scored s
TierAndBand(s) ==
    /\ pc = "idle"
    /\ pc' = "tier_and_band"
    /\ leadsIn' = <<HotLead>>
    /\ scored' = FrameOfScore(s)
    /\ dist' = ScoreDistribution(FrameOfScore(s))
    /\ UNCHANGED integrationVars
    /\ UNCHANGED <<weights, prevScored, topLeads,
                   oppsIn, analysis, accountsIn, casesIn, churn, summary>>

----------------------------------------------------------------------------
(* PipelineAnalyser.get_stage_funnel *)

\* get_stage_funnel: one entry per configured stage, in their order;
\* df["StageName"] and stage_df["Amount"] need their columns, and the sum and
\* the mean skip an Amount that is None or missing
StageFunnel(opportunities) ==
    IF opportunities = <<>> THEN [kind |-> "list", rows |-> <<>>]
    ELSE IF ~HasCol(opportunities, "StageName") \/ ~HasCol(opportunities, "Amount")
    THEN [kind |-> "raised", rows |-> <<>>]
    ELSE [kind |-> "list",
          rows |-> [s \in 1..Len(stages) |->
              LET at == StageRows(opportunities, stages[s])
                  valued == {i \in at : opportunities[i].Amount.k = "val"}
                  amount(i) == opportunities[i].Amount.v
              IN  [stage |-> stages[s],
                   count |-> Cardinality(at),
                   total_value |-> SumOver(valued, amount),
                   avg_value |->
                       IF at = {} THEN [nan |-> FALSE, q |-> Ratio(0, 1)]
                       ELSE IF valued = {} THEN [nan |-> TRUE, q |-> Ratio(0, 1)]
                       ELSE [nan |-> FALSE,
                             q |-> Ratio(SumOver(valued, amount), Cardinality(valued))]]]]

NoFunnel == [kind |-> "none", rows |-> <<>>]

\* get_stage_funnel(opportunities)
GetStageFunnel(opportunities) ==
    /\ pc = "idle"
    /\ pc' = "get_stage_funnel"
    /\ oppsIn' = opportunities
    /\ funnel' = StageFunnel(opportunities)
    /\ UNCHANGED <<weights, leadsIn, scored, prevScored, topLeads, dist,
                   analysis, accountsIn, casesIn, churn, summary>>
    /\ UNCHANGED <<sf, writeback, created>>
    /\ UNCHANGED notifyVars
    /\ UNCHANGED concurrencyVars

----------------------------------------------------------------------------
(* SalesforceClient in mock mode and in live mode.  A record is a function *)
(* of its field names, so that dict.update can add fields to it.           *)

\* self._mock_data = None
NoData == <<>>

\* no client has been constructed
NoClient == [mode |-> "none", mock_data |-> NoData]

Activity(id, who) ==
    [Id |-> id, WhoId |-> who, Subject |-> "Call: Discovery",
     Status |-> "Completed", Type |-> "Call"]

\* lead lists and opportunity lists MockDataGenerator may produce: every
\* record has an Id of its own and every field of its object
MockLeadLists == {<<HotLead, ColdLead>>, <<ColdLead, BigLead>>, <<HotLead>>}
MockOppLists == {<<EarlyOpp, WonOpp>>, <<StalledOpp, NegotiationOpp, LostOpp>>}

\* MockDataGenerator.get_all_data after generate_all
GeneratedData ==
    {[accounts |-> <<DormantAccount, ActiveAccount>>,
      leads |-> l,
      opportunities |-> o,
      cases |-> <<Case(1, 1, "High", Val(1)), Case(2, 2, "Low", Val(5))>>,
      activities |-> <<Activity(20, l[1].Id)>>] :
        l \in MockLeadLists, o \in MockOppLists}

\* SalesforceClient(use_mock): mock data when asked for, and when the live
\* connection fails
NewSalesforceClient(use_mock, connects) ==
    /\ pc = "idle"
    /\ sf.mode = "none"
    /\ IF use_mock \/ ~connects
       THEN \E data \in GeneratedData : sf' = [mode |-> "mock", mock_data |-> data]
       ELSE sf' = [mode |-> "live", mock_data |-> NoData]
    /\ UNCHANGED <<pc, weights, leadsIn, scored, prevScored, topLeads, dist,
                   oppsIn, analysis, accountsIn, casesIn, churn, summary>>
    /\ UNCHANGED <<funnel, writeback, created>>
    /\ UNCHANGED notifyVars
    /\ UNCHANGED concurrencyVars

\* obj_map of _mock_update and _mock_create
ObjMap ==
    [Lead |-> "leads", Opportunity |-> "opportunities",
     Account |-> "accounts", Case |-> "cases"]

\* obj_map.get(object_name, "")
ObjKey(object_name) == IF object_name \in DOMAIN ObjMap THEN ObjMap[object_name] ELSE ""

\* record.update(data)
RecordUpdate(record, data) ==
    [f \in DOMAIN record \cup DOMAIN data |->
        IF f \in DOMAIN data THEN data[f] ELSE record[f]]

\* _mock_update: the first record of the collection with the Id is updated in
\* place; without one the data are as they were and the call returns False
MockUpdate(mock_data, object_name, record_id, data) ==
    LET key == ObjKey(object_name)
        collection == IF key \in DOMAIN mock_data THEN mock_data[key] ELSE <<>>
        hits == {i \in 1..Len(collection) : collection[i].Id = record_id}
    IN  IF hits = {} THEN [returned |-> FALSE, mock_data |-> mock_data]
        ELSE LET first == CHOOSE i \in hits : \A j \in hits : i <= j
             IN  [returned |-> TRUE,
                  mock_data |->
                      [mock_data EXCEPT
                          ![key] = [collection EXCEPT ![first] = RecordUpdate(@, data)]]]

\* _mock_create: the data get the new Id, and are appended when obj_map knows
\* the object
MockCreate(mock_data, object_name, data, record_id) ==
    LET key == ObjKey(object_name)
        record == RecordUpdate(data, [Id |-> record_id])
    IN  [returned |-> [id |-> record_id, success |-> TRUE],
         record |-> record,
         mock_data |-> IF key \in DOMAIN mock_data
                       THEN [mock_data EXCEPT ![key] = Append(@, record)]
                       ELSE mock_data]

\* the list a later read of the object returns: get_leads, get_opportunities,
\* get_accounts, get_cases, and get_activities for a Task
ReadOf(mock_data, object_name) ==
    IF object_name = "Task" THEN mock_data.activities ELSE mock_data[ObjMap[object_name]]

\* the objects the writeback service and the tests create and update
ObjectNames == {"Lead", "Opportunity", "Account", "Case", "Task"}

\* the Ids uuid4 may give a created record: none that is in use
NewIds == 101..(100 + MaxCreated)

UsedIds(mock_data) ==
    UNION {{mock_data[key][i].Id : i \in 1..Len(mock_data[key])} : key \in DOMAIN mock_data}

\* what create_record is given: the Lead of test_mock_create_record, which
\* has none of the scoring fields, the Task of create_follow_up_tasks, and a
\* record of the object otherwise
NewRecord(object_name) ==
    IF object_name = "Lead"
    THEN [f \in ScoringFields |-> Blank(f, "absent")]
    ELSE IF object_name = "Task"
    THEN [WhoId |-> 1, Subject |-> "Follow up: Critical-priority lead",
          Status |-> "Not Started", Type |-> "Call"]
    ELSE IF object_name = "Opportunity" THEN ProposalOpp
    ELSE IF object_name = "Account" THEN Account(3, "Initech", "Finance", 500000, Val(95))
    ELSE Case(6, 2, "Critical", Val(2))

NoCreated == [object_name |-> "", returned |-> [id |-> 0, success |-> FALSE]]

\* create_record(object_name, data) on a mock client
CreateRecord(object_name, data, record_id) ==
    /\ pc = "idle"
    /\ sf.mode = "mock"
    /\ record_id \notin UsedIds(sf.mock_data)
    /\ pc' = "create_record"
    /\ LET made == MockCreate(sf.mock_data, object_name, data, record_id)
       IN  /\ sf' = [sf EXCEPT !.mock_data = made.mock_data]
           /\ created' = [object_name |-> object_name, returned |-> made.returned]
    /\ UNCHANGED <<weights, leadsIn, scored, prevScored, topLeads, dist,
                   oppsIn, analysis, accountsIn, casesIn, churn, summary>>
    /\ UNCHANGED <<funnel, writeback>>
    /\ UNCHANGED notifyVars
    /\ UNCHANGED concurrencyVars

----------------------------------------------------------------------------
(* SalesforceWriteback.update_lead_scores and the Lambda's lead scoring *)

\* datetime.now(timezone.utc).isoformat() of the call
Now == "now"

\* str(row["Priority"]): the label, or "nan" for a missing one
PriorityString(p) == IF p = "NaN" THEN "nan" ELSE p

\* a writeback that takes the scoring as the lead's last activity
LeadScoreFieldsTouchingActivity(row) ==
    [Lead_Score__c |-> row.Lead_Score,
     Priority__c |-> PriorityString(row.Priority),
     Last_Scored_Date__c |-> Now,
     Days_Since_Last_Activity__c |-> Val(0)]

\* the fields update_lead_scores writes for a row
LeadScoreFields(row) ==
    [Lead_Score__c |-> row.Lead_Score,
     Priority__c |-> PriorityString(row.Priority),
     Last_Scored_Date__c |-> Now]

NoWriteback == [rows |-> <<>>, calls |-> <<>>, updated |-> 0, errors |-> 0]

\* the loop of update_lead_scores over the rows, from the first: the calls of
\* update_record it has made, its two counters and the client's data.  In live
\* mode the update is remote, and it raises for the rows of raising.
WritebackLoop(client, frame, raising) ==
    LET F[k \in 0..Len(frame)] ==
            IF k = 0
            THEN [calls |-> <<>>, updated |-> 0, errors |-> 0, mock_data |-> client.mock_data]
            ELSE LET before == F[k - 1]
                     id == frame[k].rec.Id
                     called == Append(before.calls, id)
                 IN  IF k \in raising
                     THEN [before EXCEPT !.calls = called, !.errors = @ + 1]
                     ELSE [calls |-> called,
                           updated |-> before.updated + 1,
                           errors |-> before.errors,
                           mock_data |->
                               IF client.mode = "mock"
                               THEN MockUpdate(before.mock_data, "Lead", id,
                                               LeadScoreFields(frame[k])).mock_data
                               ELSE before.mock_data]
    IN  F[Len(frame)]

\* an update_lead_scores without the try: the first failure ends the loop
UpdateLeadScoresAborting(frame, raising) ==
    /\ pc = "score_leads"
    /\ sf.mode # "none"
    /\ raising \subseteq 1..Len(frame)
    /\ sf.mode = "mock" => raising = {}
    /\ pc' = "update_lead_scores"
    /\ LET stop == IF raising = {} THEN Len(frame)
                   ELSE (CHOOSE k \in raising : \A j \in raising : k <= j) - 1
           done == WritebackLoop(sf, SubSeq(frame, 1, stop), {})
       IN  /\ sf' = [sf EXCEPT !.mock_data = done.mock_data]
           /\ writeback' = [rows |-> frame, calls |-> done.calls,
                            updated |-> done.updated, errors |-> done.errors]
    /\ UNCHANGED <<weights, leadsIn, scored, prevScored, topLeads, dist,
                   oppsIn, analysis, accountsIn, casesIn, churn, summary>>
    /\ UNCHANGED <<funnel, created>>
    /\ UNCHANGED notifyVars
    /\ UNCHANGED concurrencyVars

\* update_lead_scores(scored_leads_df) on a frame score_leads returned
UpdateLeadScores(frame, raising) ==
    /\ pc = "score_leads"
    /\ sf.mode # "none"
    /\ raising \subseteq 1..Len(frame)
    /\ sf.mode = "mock" => raising = {}
    /\ pc' = "update_lead_scores"
    /\ LET done == WritebackLoop(sf, frame, raising)
       IN  /\ sf' = [sf EXCEPT !.mock_data = done.mock_data]
           /\ writeback' = [rows |-> frame, calls |-> done.calls,
                            updated |-> done.updated, errors |-> done.errors]
    /\ UNCHANGED <<weights, leadsIn, scored, prevScored, topLeads, dist,
                   oppsIn, analysis, accountsIn, casesIn, churn, summary>>
    /\ UNCHANGED <<funnel, created>>
    /\ UNCHANGED notifyVars
    /\ UNCHANGED concurrencyVars

\* the rows the Lambda writes back, update_record on the client
TopLeadsWritten(mock_data, top) ==
    LET F[k \in 0..Len(top)] ==
            IF k = 0 THEN mock_data
            ELSE MockUpdate(F[k - 1], "Lead", top[k].rec.Id,
                            [Lead_Score__c |-> top[k].Lead_Score,
                             Priority__c |-> PriorityString(top[k].Priority)]).mock_data
    IN  F[Len(top)]

\* scored_df.head(10): the rows the Lambda writes back
TopWritten == 10

\* _run_lead_scoring(sf_client) of the Lambda and of the Azure function, on a
\* mock client: a new LeadScorer() scores the client's leads and the scores of
\* the first ten rows are written to the client
RunLeadScoring ==
    /\ pc = "idle"
    /\ sf.mode = "mock"
    /\ pc' = "run_lead_scoring"
    /\ leadsIn' = sf.mock_data.leads
    /\ \E frame \in ScoreLeadsFrames(sf.mock_data.leads, DefaultWeights) :
          /\ scored' = frame
          /\ dist' = ScoreDistribution(frame)
          /\ sf' = [sf EXCEPT !.mock_data = TopLeadsWritten(@, HeadRows(frame, TopWritten))]
    /\ prevScored' = NoPrev
    /\ UNCHANGED <<weights, topLeads, oppsIn, analysis, accountsIn, casesIn, churn, summary>>
    /\ UNCHANGED <<funnel, writeback, created>>
    /\ UNCHANGED notifyVars
    /\ UNCHANGED concurrencyVars

----------------------------------------------------------------------------
(* NotificationService *)

\* no NotificationService has been constructed
NoChannels == <<>>

\* a channel: its name and, for the SES channel, whether ALERT_RECIPIENTS
\* names a recipient
Channel(name, recipients) == [name |-> name, recipients |-> recipients]

\* _configure_channels: the log channel, then the SES channel when
\* AWS_SES_SENDER is set, then the Slack channel when SLACK_WEBHOOK_URL is set
ConfigureChannels(env) ==
    <<Channel("log", FALSE)>>
        \o (IF env.ses THEN <<Channel("ses_email", env.recipients)>> ELSE <<>>)
        \o (IF env.slack THEN <<Channel("slack", FALSE)>> ELSE <<>>)

\* os.environ: whether AWS_SES_SENDER, ALERT_RECIPIENTS and SLACK_WEBHOOK_URL are set
Environments == [ses : BOOLEAN, recipients : BOOLEAN, slack : BOOLEAN]

\* NotificationService()
NewNotificationService(env) ==
    /\ pc = "idle"
    /\ channels = NoChannels
    /\ channels' = ConfigureChannels(env)
    /\ alertHistory' = <<>>
    /\ UNCHANGED <<pc, weights, leadsIn, scored, prevScored, topLeads, dist,
                   oppsIn, analysis, accountsIn, casesIn, churn, summary>>
    /\ UNCHANGED <<funnel, sf, writeback, created, alertCalls, dispatched>>
    /\ UNCHANGED concurrencyVars

\* the alerts of the model: two of the API's startup alerts, the daily
\* summary, and a dict without the type the channels read
Alerts ==
    {[type |-> "Lead Scoring", message |-> "2 leads scored as Critical priority.",
      priority |-> "critical"],
     [type |-> "Churn Risk", message |-> "1 accounts at high churn risk.",
      priority |-> "high"],
     [type |-> "daily_summary", message |-> "=== Salesforce Analytics Daily Summary ===",
      priority |-> "info"],
     [message |-> "untyped", priority |-> "info"]}

\* whether channel.send(alert) raises: a channel that sends reads
\* alert['type'], the SES channel sends nothing without recipients, and the SES
\* and the Slack call fail when their service does (failing)
SendRaises(channel, alert, failing) ==
    IF channel.name = "log" THEN "type" \notin DOMAIN alert
    ELSE IF channel.name = "ses_email" /\ ~channel.recipients THEN FALSE
    ELSE "type" \notin DOMAIN alert \/ channel.name \in failing

NoDispatch == [sends |-> <<>>, returned |-> FALSE]

\* the loop of send_alert over the channels: each channel.send in its turn
Dispatch(chans, alert, failing) ==
    [k \in 1..Len(chans) |->
        [channel |-> chans[k], alert |-> alert,
         raised |-> SendRaises(chans[k], alert, failing)]]

\* a send_alert without the try: the first channel that raises ends the call
SendAlertUnprotected(alert, failing) ==
    /\ pc = "idle"
    /\ channels # NoChannels
    /\ Len(alertCalls) < MaxAlerts
    /\ pc' = "send_alert"
    /\ alertCalls' = Append(alertCalls, alert)
    /\ LET stamped == RecordUpdate(alert, [timestamp |-> Now])
           sends == Dispatch(channels, stamped, failing)
           raising == {k \in 1..Len(sends) : sends[k].raised}
           last == IF raising = {} THEN Len(sends)
                   ELSE CHOOSE k \in raising : \A j \in raising : k <= j
       IN  /\ alertHistory' = Append(alertHistory, stamped)
           /\ dispatched' = [sends |-> SubSeq(sends, 1, last), returned |-> raising = {}]
    /\ UNCHANGED <<weights, leadsIn, scored, prevScored, topLeads, dist,
                   oppsIn, analysis, accountsIn, casesIn, churn, summary>>
    /\ UNCHANGED <<funnel, sf, writeback, created, channels>>
    /\ UNCHANGED concurrencyVars

\* send_alert(alert): the alert gets its timestamp and goes into the history,
\* then every channel sends it
SendAlert(alert, failing) ==
    /\ pc = "idle"
    /\ channels # NoChannels
    /\ Len(alertCalls) < MaxAlerts
    /\ pc' = "send_alert"
    /\ alertCalls' = Append(alertCalls, alert)
    /\ LET stamped == RecordUpdate(alert, [timestamp |-> Now])
       IN  /\ alertHistory' = Append(alertHistory, stamped)
           /\ dispatched' = [sends |-> Dispatch(channels, stamped, failing),
                             returned |-> TRUE]
    /\ UNCHANGED <<weights, leadsIn, scored, prevScored, topLeads, dist,
                   oppsIn, analysis, accountsIn, casesIn, churn, summary>>
    /\ UNCHANGED <<funnel, sf, writeback, created, channels>>
    /\ UNCHANGED concurrencyVars

\* get_alert_history(limit): self._alert_history[-limit:]
GetAlertHistory(limit) ==
    IF limit = 0 \/ limit >= Len(alertHistory) THEN alertHistory
    ELSE SubSeq(alertHistory, Len(alertHistory) - limit + 1, Len(alertHistory))

\* the default limit of get_alert_history
HistoryLimit == 50

----------------------------------------------------------------------------
(* Concurrent invocations on the shared LeadScorer, PipelineAnalyser and    *)
(* ChurnPredictor of the API.  An invocation builds a frame of its own from *)
(* its input, reads the attribute of its instance where the code reads it,  *)
(* and returns; the steps of the threads interleave.                        *)

Threads == 1..MaxThreads

IdleThread == [at |-> "idle", entry |-> "", input |-> <<>>, local |-> <<>>, result |-> <<>>]

Entries == {"score_leads", "analyse_pipeline", "predict_churn"}

\* what the requests pass: lists the client reads
ConcurrentInputs(entry) ==
    IF entry = "score_leads" THEN MockLeadLists
    ELSE IF entry = "analyse_pipeline" THEN MockOppLists
    ELSE {[accounts |-> d.accounts, cases |-> d.cases, opportunities |-> d.opportunities] :
             d \in GeneratedData}

\* a thread enters score_leads, analyse_pipeline or predict_churn: the entry
\* point builds its own DataFrame of the input
Invoke(t, entry, input) ==
    /\ threads[t].at = "idle"
    /\ threads' = [threads EXCEPT ![t] = [at |-> "frame", entry |-> entry, input |-> input,
                                          local |-> <<>>, result |-> <<>>]]
    /\ UNCHANGED <<pc, weights, leadsIn, scored, prevScored, topLeads, dist,
                   oppsIn, analysis, accountsIn, casesIn, churn, summary>>
    /\ UNCHANGED <<funnel, sf, writeback, created, notifyVars, thresholds, stages>>

\* a score_leads that halves self.weights in place once it has weighed
WeighLeadsInPlace(t) ==
    /\ threads[t].at = "frame"
    /\ threads[t].entry = "score_leads"
    /\ weights' = [f \in DOMAIN weights |-> weights[f] \div 2]
    /\ threads' = [threads EXCEPT ![t].at = "read",
                                  ![t].local = LeadRows(threads[t].input, weights)]
    /\ UNCHANGED <<pc, leadsIn, scored, prevScored, topLeads, dist,
                   oppsIn, analysis, accountsIn, casesIn, churn, summary>>
    /\ UNCHANGED <<funnel, sf, writeback, created, notifyVars, thresholds, stages>>

\* score_leads weighs the sub-scores of its frame by self.weights
WeighLeads(t) ==
    /\ threads[t].at = "frame"
    /\ threads[t].entry = "score_leads"
    /\ threads' = [threads EXCEPT ![t].at = "read",
                                  ![t].local = LeadRows(threads[t].input, weights)]
    /\ UNCHANGED <<pc, weights, leadsIn, scored, prevScored, topLeads, dist,
                   oppsIn, analysis, accountsIn, casesIn, churn, summary>>
    /\ UNCHANGED <<funnel, sf, writeback, created, notifyVars, thresholds, stages>>

\* analyse_pipeline goes over self.stages for its stage summary
SummariseStages(t) ==
    /\ threads[t].at = "frame"
    /\ threads[t].entry = "analyse_pipeline"
    /\ threads' = [threads EXCEPT
                      ![t].at = "read",
                      ![t].local = IF AnalysePipelineResult(threads[t].input).kind = "full"
                                   THEN StageSummary(threads[t].input) ELSE <<>>]
    /\ UNCHANGED <<pc, weights, leadsIn, scored, prevScored, topLeads, dist,
                   oppsIn, analysis, accountsIn, casesIn, churn, summary>>
    /\ UNCHANGED <<funnel, sf, writeback, created, notifyVars, thresholds, stages>>

\* predict_churn classifies the score of every account by self.thresholds
ClassifyAccounts(t) ==
    /\ threads[t].at = "frame"
    /\ threads[t].entry = "predict_churn"
    /\ LET in == threads[t].input
       IN  threads' = [threads EXCEPT
                          ![t].at = "read",
                          ![t].local =
                              IF in.accounts = <<>>
                                 \/ ChurnRaises(in.accounts, in.cases, in.opportunities)
                              THEN <<>>
                              ELSE ChurnRows(in.accounts, in.cases, in.opportunities)]
    /\ UNCHANGED <<pc, weights, leadsIn, scored, prevScored, topLeads, dist,
                   oppsIn, analysis, accountsIn, casesIn, churn, summary>>
    /\ UNCHANGED <<funnel, sf, writeback, created, notifyVars, thresholds, stages>>

\* what an invocation returns of what it has read and computed: the sorted
\* frame of score_leads and of predict_churn, the dict of analyse_pipeline
Returns(thread) ==
    LET in == thread.input
        rows == thread.local
    IN  IF thread.entry = "score_leads"
        THEN {[i \in 1..Len(rows) |-> rows[p[i]]] : p \in SortOrders(rows, LeadScoreOf)}
        ELSE IF thread.entry = "analyse_pipeline"
        THEN IF AnalysePipelineResult(in).kind = "full"
             THEN {[AnalysePipelineResult(in) EXCEPT !.stage_summary = rows]}
             ELSE {AnalysePipelineResult(in)}
        ELSE IF in.accounts = <<>> THEN {[kind |-> "frame", rows |-> <<>>]}
        ELSE IF ChurnRaises(in.accounts, in.cases, in.opportunities)
        THEN {[kind |-> "raised", rows |-> <<>>]}
        ELSE {[kind |-> "frame", rows |-> [i \in 1..Len(rows) |-> rows[p[i]]]] :
                 p \in SortOrders(rows, ChurnScoreOf)}

\* the invocation of a thread returns
Return(t) ==
    /\ threads[t].at = "read"
    /\ \E result \in Returns(threads[t]) :
          threads' = [threads EXCEPT ![t].at = "returned", ![t].result = result]
    /\ UNCHANGED <<pc, weights, leadsIn, scored, prevScored, topLeads, dist,
                   oppsIn, analysis, accountsIn, casesIn, churn, summary>>
    /\ UNCHANGED <<funnel, sf, writeback, created, notifyVars, thresholds, stages>>

\* the request of a thread is over
Release(t) ==
    /\ threads[t].at = "returned"
    /\ threads' = [threads EXCEPT ![t] = IdleThread]
    /\ UNCHANGED <<pc, weights, leadsIn, scored, prevScored, topLeads, dist,
                   oppsIn, analysis, accountsIn, casesIn, churn, summary>>
    /\ UNCHANGED <<funnel, sf, writeback, created, notifyVars, thresholds, stages>>

\* what the entry point of a thread returns for its input when it runs alone
Alone(thread) ==
    IF thread.entry = "score_leads" THEN ScoreLeadsFrames(thread.input, weights)
    ELSE IF thread.entry = "analyse_pipeline" THEN {AnalysePipelineResult(thread.input)}
    ELSE PredictChurnFrames(thread.input.accounts, thread.input.cases,
                            thread.input.opportunities)

----------------------------------------------------------------------------
(* The caller *)

\* the caller drops what the last call returned
Discard ==
    /\ pc # "idle"
    /\ pc' = "idle"
    /\ leadsIn' = <<>>
    /\ scored' = NoFrame
    /\ prevScored' = NoPrev
    /\ topLeads' = NoTop
    /\ dist' = NoDist
    /\ oppsIn' = <<>>
    /\ analysis' = NoAnalysis
    /\ accountsIn' = <<>>
    /\ casesIn' = <<>>
    /\ churn' = NoChurn
    /\ summary' = NoSummary
    /\ funnel' = NoFunnel
    /\ writeback' = NoWriteback
    /\ created' = NoCreated
    /\ dispatched' = NoDispatch
    /\ UNCHANGED <<weights, sf, channels, alertHistory, alertCalls>>
    /\ UNCHANGED concurrencyVars

\* LeadScorer(), PipelineAnalyser() and ChurnPredictor() are constructed
Init ==
    /\ pc = "idle"
    /\ weights = LeadScorerInit([given |-> FALSE, w |-> DefaultWeights])
    /\ leadsIn = <<>>
    /\ scored = NoFrame
    /\ prevScored = NoPrev
    /\ topLeads = NoTop
    /\ dist = NoDist
    /\ oppsIn = <<>>
    /\ analysis = NoAnalysis
    /\ accountsIn = <<>>
    /\ casesIn = <<>>
    /\ churn = NoChurn
    /\ summary = NoSummary
    /\ funnel = NoFunnel
    /\ sf = NoClient
    /\ writeback = NoWriteback
    /\ created = NoCreated
    /\ channels = NoChannels
    /\ alertHistory = <<>>
    /\ alertCalls = <<>>
    /\ dispatched = NoDispatch
    /\ thresholds = [high |-> ThresholdHigh, medium |-> ThresholdMedium]
    /\ stages = Stages
    /\ threads = [t \in Threads |-> IdleThread]

\* the caller is idle before it calls
NextLead ==
    \/ pc = "idle" /\ \E arg \in WeightArgs : NewLeadScorer(arg)
    \/ pc = "idle" /\ \E leads \in LeadInputs : ScoreLeads(leads)
    \/ pc = "score_leads" /\ ScoreLeads(leadsIn)
    \/ pc = "idle" /\ \E leads \in LeadInputs, top_n \in {1, MaxLeads} : GetTopLeads(leads, top_n)
    \/ pc = "idle" /\ \E leads \in LeadInputs : GetScoreDistribution(leads)
    \/ Discard

NextPipeline ==
    \/ pc = "idle" /\ \E opportunities \in OppInputs : AnalysePipeline(opportunities)
    \/ Discard

NextChurn ==
    \/ /\ pc = "idle"
       /\ \E accounts \in AccountInputs, cases \in CaseInputs, opportunities \in ChurnOppInputs :
             PredictChurn(accounts, cases, opportunities)
    \/ /\ pc = "idle"
       /\ \E accounts \in AccountInputs, cases \in CaseInputs, opportunities \in ChurnOppInputs :
             GetRiskSummary(accounts, cases, opportunities)
    \/ Discard

NextRisks ==
    \/ pc = "idle" /\ \E opportunities \in RiskOppInputs : AnalysePipeline(opportunities)
    \/ Discard

NextWinRate ==
    \/ NextPipeline
    \/ /\ pc = "idle"
       /\ \E won \in 0..MaxWon, lost \in 0..MaxLost :
             AnalysePipeline(ClosedPipeline(won, lost))

NextTiers ==
    \/ pc = "idle" /\ \E s \in ScoreDomain : TierAndBand(s)
    \/ Discard

\* a client is constructed; the entry points are called on what the client
\* reads, as the API and the functions call them; scored frames are written
\* back and records are created
NextClient ==
    \/ pc = "idle" /\ \E use_mock \in BOOLEAN, connects \in BOOLEAN :
                         NewSalesforceClient(use_mock, connects)
    \/ pc = "idle" /\ sf.mode = "mock" /\ ScoreLeads(sf.mock_data.leads)
    \/ pc = "idle" /\ \E leads \in MockLeadLists : ScoreLeads(leads)
    \/ pc = "idle" /\ sf.mode = "mock" /\ GetScoreDistribution(sf.mock_data.leads)
    \/ pc = "idle" /\ sf.mode = "mock" /\ AnalysePipeline(sf.mock_data.opportunities)
    \/ pc = "idle" /\ sf.mode = "mock" /\ GetStageFunnel(sf.mock_data.opportunities)
    \/ /\ pc = "idle"
       /\ sf.mode = "mock"
       /\ PredictChurn(sf.mock_data.accounts, sf.mock_data.cases, sf.mock_data.opportunities)
    \/ /\ pc = "idle"
       /\ sf.mode = "mock"
       /\ GetRiskSummary(sf.mock_data.accounts, sf.mock_data.cases, sf.mock_data.opportunities)
    \/ pc = "score_leads" /\ \E top_n \in {1, MaxLeads}, raising \in SUBSET (1..MaxLeads) :
                                UpdateLeadScores(HeadRows(scored, top_n), raising)
    \/ pc = "idle" /\ RunLeadScoring
    \/ pc = "idle" /\ \E object_name \in ObjectNames, record_id \in NewIds :
                         CreateRecord(object_name, NewRecord(object_name), record_id)
    \/ Discard

\* a NotificationService is constructed and alerts are sent through it
NextNotify ==
    \/ pc = "idle" /\ \E env \in Environments : NewNotificationService(env)
    \/ pc = "idle" /\ \E alert \in Alerts, failing \in SUBSET {"ses_email", "slack"} :
                         SendAlert(alert, failing)
    \/ Discard

\* the threads of the API take their steps in any order
NextConcurrent ==
    \/ pc = "idle" /\ \E t \in Threads, entry \in Entries :
                         \E input \in ConcurrentInputs(entry) : Invoke(t, entry, input)
    \/ pc = "idle" /\ \E t \in Threads : WeighLeads(t)
    \/ pc = "idle" /\ \E t \in Threads : SummariseStages(t)
    \/ pc = "idle" /\ \E t \in Threads : ClassifyAccounts(t)
    \/ pc = "idle" /\ \E t \in Threads : Return(t)
    \/ pc = "idle" /\ \E t \in Threads : Release(t)

Next == NextLead \/ NextPipeline \/ NextChurn

SpecLead == Init /\ [][NextLead]_vars
SpecPipeline == Init /\ [][NextPipeline]_vars
SpecChurn == Init /\ [][NextChurn]_vars
SpecRisks == Init /\ [][NextRisks]_vars
SpecWinRate == Init /\ [][NextWinRate]_vars
SpecTiers == Init /\ [][NextTiers]_vars
SpecClient == Init /\ [][NextClient]_vars
SpecNotify == Init /\ [][NextNotify]_vars
SpecConcurrent == Init /\ [][NextConcurrent]_vars
Spec == Init /\ [][Next]_vars

----------------------------------------------------------------------------
(* Properties of LeadScorer *)

FourPriorities == {"Low", "Medium", "High", "Critical"}

\* C1: with the default weights, every row score_leads returns has a finite
\* Lead_Score between 0 and 100 and a Priority among Low, Medium, High and
\* Critical, also for leads whose scoring fields are absent or null.
C1_ScoresAndPrioritiesDefined ==
    (pc = "score_leads" /\ weights = DefaultWeights) =>
        \A i \in 1..Len(scored) :
            /\ ~scored[i].Lead_Score.nan
            /\ scored[i].Lead_Score.v >= 0
            /\ scored[i].Lead_Score.v <= 1000
            /\ scored[i].Priority \in FourPriorities

\* a >= b on floats: false as soon as one side is NaN
FloatGeq(a, b) == ~a.nan /\ ~b.nan /\ a.v >= b.v

\* C4: the rows score_leads returns are ordered so that Lead_Score is
\* non-increasing from the first row to the last.
C4_LeadScoreNonIncreasing ==
    pc = "score_leads" =>
        \A i \in 1..(Len(scored) - 1) :
            FloatGeq(scored[i].Lead_Score, scored[i + 1].Lead_Score)

BandOfTier ==
    [Low |-> "band_0_30", Medium |-> "band_31_60",
     High |-> "band_61_80", Critical |-> "band_81_100"]

\* the tier score_leads gives a score differs from the tier of the band
\* get_score_distribution counts it in
BandDiffersFromTier(s) ==
    \E p \in FourPriorities :
        /\ ScoreRanges(FrameOfScore(s))[BandOfTier[p]] = 1
        /\ PriorityCut(Num(s)) # p

----------------------------------------------------------------------------
(* Properties of PipelineAnalyser *)

\* the rating the documented thresholds give a score in tenths
ThresholdRating(score) ==
    IF score >= 750 THEN "Excellent"
    ELSE IF score >= 550 THEN "Good"
    ELSE IF score >= 350 THEN "Fair"
    ELSE "Poor"

\* C3 as stated: for every opportunity sequence analyse_pipeline returns a
\* health score between 0 and 100 whose rating is the one the thresholds give:
\* Excellent from 75, Good from 55, Fair from 35, otherwise Poor.
C3_RatingByThresholdsAlways ==
    (pc = "analyse_pipeline" /\ analysis.kind \in {"full", "empty"}) =>
        /\ analysis.health_score.score >= 0
        /\ analysis.health_score.score <= 1000
        /\ analysis.health_score.rating = ThresholdRating(analysis.health_score.score)

\* C3, amended: the health score analyse_pipeline returns is between 0 and 100;
\* for a non-empty opportunity sequence the rating is the one the thresholds
\* give (Excellent from 75, Good from 55, Fair from 35, otherwise Poor), and
\* for the empty sequence the score is 0 and the rating is No Data.
C3_RatingByThresholds ==
    /\ (pc = "analyse_pipeline" /\ analysis.kind = "full") =>
          /\ oppsIn # <<>>
          /\ analysis.health_score.score >= 0
          /\ analysis.health_score.score <= 1000
          /\ analysis.health_score.rating = ThresholdRating(analysis.health_score.score)
    /\ (pc = "analyse_pipeline" /\ oppsIn = <<>>) =>
          /\ analysis.kind = "empty"
          /\ analysis.health_score.score = 0
          /\ analysis.health_score.rating = "No Data"

\* a pipeline has been analysed whose score is exactly 75.0, rated Excellent
C3_Witness ==
    /\ pc = "analyse_pipeline"
    /\ analysis.kind = "full"
    /\ analysis.health_score.score = 750
    /\ analysis.health_score.rating = "Excellent"

\* C9: for every opportunity sequence, the empty one included, the
\* stage_summary analyse_pipeline returns has exactly one entry per configured
\* stage, in the configured order, with count 0 and avg_value 0 for a stage
\* without a matching record.
C9_StageSummaryCoversStages ==
    (pc = "analyse_pipeline" /\ analysis.kind \in {"full", "empty"}) =>
        /\ Len(analysis.stage_summary) = Len(Stages)
        /\ \A k \in 1..Len(Stages) :
              LET entry == analysis.stage_summary[k]
                  matching == {i \in 1..Len(oppsIn) :
                                  oppsIn[i].StageName = Val(Stages[k])}
              IN  /\ entry.stage = Stages[k]
                  /\ entry.count = Cardinality(matching)
                  /\ matching = {} => entry.avg_value = Ratio(0, 1)

----------------------------------------------------------------------------
(* Properties of ChurnPredictor *)

\* C2: every row predict_churn returns has a Churn_Risk_Score between 0 and 1,
\* a Churn_Risk_Level among Low, Medium and High, and a Risk_Factors list of
\* at least one element.
C2_ChurnRowsWellFormed ==
    (pc = "predict_churn" /\ churn.kind = "frame") =>
        \A i \in 1..Len(churn.rows) :
            /\ churn.rows[i].Churn_Risk_Score >= 0
            /\ churn.rows[i].Churn_Risk_Score <= 1000
            /\ churn.rows[i].Churn_Risk_Level \in {"Low", "Medium", "High"}
            /\ Len(churn.rows[i].Risk_Factors) >= 1

\* a frame of a High account with factors and a Low account with none: its
\* list holds the placeholder alone
C2_Witness ==
    /\ pc = "predict_churn"
    /\ churn.kind = "frame"
    /\ Len(churn.rows) = 2
    /\ churn.rows[1].Churn_Risk_Level = "High"
    /\ Len(churn.rows[1].Risk_Factors) >= 2
    /\ churn.rows[2].Churn_Risk_Level = "Low"
    /\ churn.rows[2].Risk_Factors = <<"No significant risk factors identified">>

\* C5: predict_churn returns the input accounts reordered, exactly one row
\* per input account, also when there is no case, and Churn_Risk_Score is
\* non-increasing from the first row to the last.
C5_OneRowPerAccountSorted ==
    (pc = "predict_churn" /\ churn.kind = "frame") =>
        /\ Len(churn.rows) = Len(accountsIn)
        /\ {churn.rows[i].idx : i \in 1..Len(churn.rows)} = 1..Len(accountsIn)
        /\ \A i \in 1..Len(churn.rows) : churn.rows[i].rec = accountsIn[churn.rows[i].idx]
        /\ \A i \in 1..(Len(churn.rows) - 1) :
              churn.rows[i].Churn_Risk_Score >= churn.rows[i + 1].Churn_Risk_Score

\* two accounts without any case have been scored, and the second one of the
\* input comes first in the frame
C5_Witness ==
    /\ pc = "predict_churn"
    /\ churn.kind = "frame"
    /\ casesIn = <<>>
    /\ Len(accountsIn) = 2
    /\ Len(churn.rows) = 2
    /\ churn.rows[1].idx = 2
    /\ churn.rows[1].Churn_Risk_Score > churn.rows[2].Churn_Risk_Score

\* C10: the counts of the risk_breakdown get_risk_summary returns sum to
\* total_accounts, and total_accounts is the number of input accounts.
C10_BreakdownSumsToTotal ==
    (pc = "get_risk_summary" /\ summary.kind \in {"summary", "empty"}) =>
        LET levels == DOMAIN summary.risk_breakdown
            count(level) == summary.risk_breakdown[level]
        IN  /\ SumOver(levels, count) = summary.total_accounts
            /\ summary.total_accounts = Len(accountsIn)
            /\ levels \subseteq {"Low", "Medium", "High"}

\* a summary of two accounts, one of them High with a score of 0.8 or more
C10_Witness ==
    /\ pc = "get_risk_summary"
    /\ summary.kind = "summary"
    /\ summary.total_accounts = 2
    /\ summary.risk_breakdown["High"] = 1
    /\ Len(summary.high_risk_accounts) = 1
    /\ summary.high_risk_accounts[1].Churn_Risk_Score >= 800

----------------------------------------------------------------------------
(* Absent fields and empty inputs *)

\* C11: analyse_pipeline does not raise because a documented field (IsClosed,
\* IsWon, Days_In_Stage__c, ...) is absent from some or from all records: the
\* call returns normally.
C11_AbsentFieldDoesNotRaise ==
    pc = "analyse_pipeline" => analysis.kind # "raised"

\* C12: get_score_distribution on an empty lead sequence does not raise and
\* returns a zeroed distribution: total_leads 0, every priority-tier count 0
\* and every score-band count 0.
C12_EmptyDistributionZeroed ==
    (pc = "get_score_distribution" /\ leadsIn = <<>>) =>
        /\ ~dist.raised
        /\ dist.total_leads = 0
        /\ \A p \in DOMAIN dist.priority_breakdown : dist.priority_breakdown[p] = 0
        /\ \A b \in DOMAIN dist.score_ranges : dist.score_ranges[b] = 0

\* the fields of the summary get_risk_summary documents
SummaryFields ==
    {"total_accounts", "average_risk_score", "risk_breakdown",
     "high_risk_accounts", "total_revenue_at_risk"}

\* C13: what get_risk_summary returns holds all five summary fields
\* (total_accounts, average_risk_score, risk_breakdown, high_risk_accounts,
\* total_revenue_at_risk), also for an empty account sequence, and the call
\* on an empty account sequence does not raise.
C13_SummaryHasFiveFields ==
    /\ (pc = "get_risk_summary" /\ summary.kind \in {"summary", "empty"}) =>
          SummaryFields \subseteq DOMAIN summary
    /\ (pc = "get_risk_summary" /\ accountsIn = <<>>) => summary.kind # "raised"

\* C14: analyse_pipeline on an empty opportunity list does not raise and
\* returns the rating No Data, no risk indicator and exactly one
\* recommendation, the generic one.
C14_EmptyPipelineResult ==
    (pc = "analyse_pipeline" /\ oppsIn = <<>>) =>
        /\ analysis.kind = "empty"
        /\ analysis.health_score.rating = "No Data"
        /\ analysis.risk_indicators = <<>>
        /\ analysis.recommendations = <<"No opportunity data available for analysis.">>

\* the empty opportunity list has been analysed
C14_Witness ==
    /\ pc = "analyse_pipeline"
    /\ oppsIn = <<>>
    /\ analysis.kind = "empty"
    /\ Len(analysis.recommendations) = 1

----------------------------------------------------------------------------
(* Sub-scores of LeadScorer *)

\* every scoring field of every lead holds a value
AllFieldsGiven(leads) ==
    \A i \in 1..Len(leads) : \A f \in ScoringFields : leads[i][f].k = "val"

\* C15: each of the six sub-scores score_leads computes for a lead with
\* non-negative field values lies in [0, 1], whatever the magnitude of the
\* values (more than 10000 employees, revenue above 1e8, more than 50 visits).
C15_SubScoresInUnitInterval ==
    (pc = "score_leads" /\ AllFieldsGiven(leadsIn)) =>
        \A name \in WeightNames : \A i \in 1..Len(leadsIn) :
            LET sub == SubScores(leadsIn)[name][i]
            IN  ~sub.nan /\ 0 <= sub.v /\ sub.v <= Unit

----------------------------------------------------------------------------
(* Risk indicators, recommendations and forecast of PipelineAnalyser *)

\* the open deals of the analysed pipeline
OpenDeals == {i \in 1..Len(oppsIn) : oppsIn[i].IsClosed = Val(FALSE)}

\* the Amount of a deal, 0 when it has none
AmountOf(i) == IF oppsIn[i].Amount.k = "val" THEN oppsIn[i].Amount.v ELSE 0

\* a finding of the type is among the risk indicators
HasFinding(type) ==
    \E k \in 1..Len(analysis.risk_indicators) : analysis.risk_indicators[k].type = type

SeverityOf ==
    [x \in {"Stalled Deals", "Concentration Risk", "Thin Top of Funnel"} |->
        IF x = "Stalled Deals" THEN "High" ELSE "Medium"]

\* C16: for a non-empty opportunity sequence, risk_indicators holds a Stalled
\* Deals finding (High) iff some open deal has Days_In_Stage__c > 30, a
\* Concentration Risk finding (Medium) iff the largest open Amount is strictly
\* more than 40% of the total open Amount, and a Thin Top of Funnel finding
\* (Medium) iff fewer than 5 open deals are in Prospecting or Qualification;
\* at most one finding of each type, no other finding, and closed deals do
\* not influence any of them.
C16_RiskIndicatorsIff ==
    (pc = "analyse_pipeline" /\ analysis.kind = "full") =>
        LET risks == analysis.risk_indicators
            total == SumOver(OpenDeals, AmountOf)
            early == {i \in OpenDeals :
                         oppsIn[i].StageName \in {Val("Prospecting"), Val("Qualification")}}
        IN  /\ \A k \in 1..Len(risks) :
                  /\ risks[k].type \in DOMAIN SeverityOf
                  /\ risks[k].severity = SeverityOf[risks[k].type]
            /\ \A j, k \in 1..Len(risks) : risks[j].type = risks[k].type => j = k
            /\ HasFinding("Stalled Deals") <=>
                  \E i \in OpenDeals : /\ oppsIn[i].Days_In_Stage__c.k = "val"
                                       /\ oppsIn[i].Days_In_Stage__c.v > 30
            /\ HasFinding("Concentration Risk") <=>
                  \E i \in OpenDeals : 10 * AmountOf(i) > 4 * total
            /\ HasFinding("Thin Top of Funnel") <=> Cardinality(early) < 5

\* five open deals in the early stages, none stalled and none above 40% of
\* the open value, beside which nothing is found
C16_Witness ==
    /\ pc = "analyse_pipeline"
    /\ analysis.kind = "full"
    /\ Len(oppsIn) = 5
    /\ \A i \in 1..5 : oppsIn[i] = EarlyOpp
    /\ analysis.risk_indicators = <<>>

\* the recommendation documented for each type of finding, by its first words
AdviceByType ==
    [x \in {"Stalled Deals", "Concentration Risk", "Thin Top of Funnel"} |->
        IF x = "Stalled Deals" THEN "Review stalled deals"
        ELSE IF x = "Concentration Risk" THEN "Diversify pipeline"
        ELSE "Increase prospecting activity"]

\* the closed deals of the analysed pipeline
ClosedDeals == {i \in 1..Len(oppsIn) : oppsIn[i].IsClosed = Val(TRUE)}

\* the closed deals that are won
WonDeals == {i \in ClosedDeals : oppsIn[i].IsWon = Val(TRUE)}

\* the win-rate sub-score, 25 * won / closed (12.5 without a closed deal), is
\* below 10
WinRateSubScoreBelowTen ==
    ClosedDeals # {} /\ 25 * Cardinality(WonDeals) < 10 * Cardinality(ClosedDeals)

\* C17 as stated: for a non-empty opportunity sequence, recommendations holds
\* one string per entry of risk_indicators, in the same order and chosen by
\* the risk type, followed by the win-rate recommendation iff the win-rate
\* sub-score is below 10 of 25.
C17_WinRateAdviceBelowTen ==
    (pc = "analyse_pipeline" /\ analysis.kind = "full") =>
        LET risks == analysis.risk_indicators
        IN  analysis.recommendations =
                [k \in 1..Len(risks) |-> AdviceByType[risks[k].type]]
                \o (IF WinRateSubScoreBelowTen
                    THEN <<"Win rate is below target">> ELSE <<>>)

\* C17, amended: for a non-empty opportunity sequence, recommendations holds
\* one string per entry of risk_indicators, in the same order and chosen by
\* the risk type, followed by the win-rate recommendation iff the win-rate
\* sub-score rounded to one decimal, as the breakdown reports it, is below
\* 10; without a closed deal the sub-score is 12.5 and the win-rate
\* recommendation is not there.
C17_RecommendationsFollowRisks ==
    (pc = "analyse_pipeline" /\ analysis.kind = "full") =>
        LET risks == analysis.risk_indicators
            win_rate == analysis.health_score.breakdown.win_rate
        IN  /\ analysis.recommendations =
                  [k \in 1..Len(risks) |-> AdviceByType[risks[k].type]]
                  \o (IF win_rate < 100 THEN <<"Win rate is below target">> ELSE <<>>)
            /\ ClosedDeals = {} =>
                  /\ win_rate = 125
                  /\ Len(analysis.recommendations) = Len(risks)

\* 41 of 103 closed deals are won: the win-rate sub-score is 9.951, the
\* breakdown holds it rounded to 10.0, and the win-rate recommendation is not
\* there
C17_Witness ==
    /\ pc = "analyse_pipeline"
    /\ analysis.kind = "full"
    /\ Cardinality(ClosedDeals) = 103
    /\ Cardinality(WonDeals) = 41
    /\ analysis.health_score.breakdown.win_rate = 100
    /\ Len(analysis.risk_indicators) = 1
    /\ analysis.recommendations = <<"Increase prospecting activity">>

\* the total Amount of the open deals whose ForecastCategory is among cells
OpenAmountIn(cells) ==
    LET chosen == {i \in OpenDeals : oppsIn[i].ForecastCategory \in cells}
    IN  SumOver(chosen, AmountOf)

\* C18: in the forecast only open deals contribute; an open deal without a
\* ForecastCategory contributes its Amount to the pipeline bucket, and an open
\* deal categorized Best Case, Commit or Pipeline contributes its Amount to
\* exactly that bucket.
C18_ForecastBuckets ==
    (pc = "analyse_pipeline" /\ analysis.kind = "full") =>
        /\ analysis.forecast.best_case = OpenAmountIn({Val("Best Case")})
        /\ analysis.forecast.commit = OpenAmountIn({Val("Commit")})
        /\ analysis.forecast.pipeline = OpenAmountIn({Val("Pipeline"), Absent(""), Null("")})

----------------------------------------------------------------------------
(* Scenarios of the health score and of the churn score *)

\* every record of the analysed pipeline is a lost deal in stage Closed Lost
AllClosedLost ==
    /\ oppsIn # <<>>
    /\ \A i \in 1..Len(oppsIn) :
          /\ oppsIn[i].StageName = Val("Closed Lost")
          /\ oppsIn[i].IsClosed = Val(TRUE)
          /\ oppsIn[i].IsWon = Val(FALSE)

\* C19: when every record is in stage Closed Lost (IsClosed true, IsWon
\* false), the breakdown has coverage 0, distribution 0 and win_rate 0, the
\* health score is the velocity component alone, at most 25, and the rating
\* is Poor.
C19_AllClosedLostIsPoor ==
    (pc = "analyse_pipeline" /\ analysis.kind = "full" /\ AllClosedLost) =>
        LET health == analysis.health_score
        IN  /\ health.breakdown.coverage = 0
            /\ health.breakdown.distribution = 0
            /\ health.breakdown.win_rate = 0
            /\ health.score = health.breakdown.velocity
            /\ health.score >= 0
            /\ health.score <= 250
            /\ health.rating = "Poor"

\* two lost deals, 12 and 90 days in their stage: the score is the velocity
\* component 3.8
C19_Witness ==
    /\ pc = "analyse_pipeline"
    /\ analysis.kind = "full"
    /\ AllClosedLost
    /\ Len(oppsIn) = 2
    /\ analysis.health_score.score = 38
    /\ analysis.health_score.breakdown.velocity = 38
    /\ analysis.health_score.rating = "Poor"

\* the quotient q has the value num / den
HasValue(q, num, den) == q.num * den = num * q.den

\* one account, last active 100 days ago, without cases and opportunities
DormantAlone ==
    /\ accountsIn = <<DormantAccount>>
    /\ DormantAccount.LastActivityDate = Val(100)
    /\ casesIn = <<>>
    /\ oppsIn = <<>>

----------------------------------------------------------------------------
(* Risk factors, revenue risk and orphaned cases of ChurnPredictor *)

\* the fixed strings of the four sub-scores, in the order of the checks
FactorStrings ==
    <<"High support case volume or escalations",
      "Low engagement - no recent activity",
      "No recent closed-won opportunities",
      "Low customer satisfaction scores">>

Sentinel == "No significant risk factors identified"

\* the four sub-scores predict_churn computes for the account of a row
SubScoresOfRow(row) ==
    <<CaseRiskScore(accountsIn, casesIn)[row.idx],
      EngagementRiskScore(accountsIn)[row.idx],
      RevenueRiskScore(accountsIn, oppsIn)[row.idx],
      SatisfactionRiskScore(accountsIn, casesIn)[row.idx]>>

\* the quotient q is strictly greater than 0.6
AboveSixTenths(q) == 10 * q.num > 6 * q.den

\* C21: Risk_Factors of an account holds the fixed string of a sub-score, in
\* the order case, engagement, revenue, satisfaction, iff that sub-score is
\* strictly greater than 0.6, and holds the sentinel alone iff none of the
\* four sub-scores exceeds 0.6; the sentinel is never beside a real factor.
C21_RiskFactorsIff ==
    (pc = "predict_churn" /\ churn.kind = "frame") =>
        \A r \in 1..Len(churn.rows) :
            LET factors == churn.rows[r].Risk_Factors
                subs == SubScoresOfRow(churn.rows[r])
                has(x) == \E k \in 1..Len(factors) : factors[k] = x
                place(x) == IF x = Sentinel THEN 5
                            ELSE CHOOSE n \in 1..4 : FactorStrings[n] = x
            IN  /\ \A k \in 1..Len(factors) :
                      factors[k] \in {FactorStrings[n] : n \in 1..4} \cup {Sentinel}
                /\ \A n \in 1..4 : has(FactorStrings[n]) <=> AboveSixTenths(subs[n])
                /\ has(Sentinel) <=> \A n \in 1..4 : ~AboveSixTenths(subs[n])
                /\ has(Sentinel) => factors = <<Sentinel>>
                /\ \A j, k \in 1..Len(factors) : j < k => place(factors[j]) < place(factors[k])

\* no opportunity is won, so the revenue risk is exactly 0.6: one account has
\* the engagement and the satisfaction factor, the other the sentinel alone
C21_Witness ==
    /\ pc = "predict_churn"
    /\ churn.kind = "frame"
    /\ Len(churn.rows) = 2
    /\ oppsIn = <<LostOpp>>
    /\ churn.rows[1].Risk_Factors = <<FactorStrings[2], FactorStrings[4]>>
    /\ churn.rows[2].Risk_Factors = <<Sentinel>>

\* the won opportunities of the call, and those of an account
WonOpps == {j \in 1..Len(oppsIn) : oppsIn[j].IsWon = Val(TRUE)}
WonOppsOf(account) == {j \in WonOpps : oppsIn[j].AccountId = Val(account.Id)}

\* C22: the revenue risk of an account is 0.5 when the opportunity list is
\* empty, 0.6 when opportunities exist but none is won, and otherwise 0.2 for
\* an account with at least one won opportunity, whatever its amount, and 1.0
\* for an account with none.
C22_RevenueRiskByWins ==
    (pc = "predict_churn" /\ churn.kind = "frame") =>
        \A i \in 1..Len(accountsIn) :
            LET risk == RevenueRiskScore(accountsIn, oppsIn)[i]
            IN  IF oppsIn = <<>> THEN HasValue(risk, 5, 10)
                ELSE IF WonOpps = {} THEN HasValue(risk, 6, 10)
                ELSE IF WonOppsOf(accountsIn[i]) # {} THEN HasValue(risk, 2, 10)
                ELSE HasValue(risk, 10, 10)


----------------------------------------------------------------------------
(* C23 *)

\* the cases whose AccountId is the Id of no account
Orphaned(cases, accounts) ==
    {j \in Rows(cases) : \A i \in Rows(accounts) : j \notin CasesOf(cases, accounts[i])}

\* the cases without the orphaned ones, in their order
WithoutOrphaned(cases, accounts) ==
    LET kept == RowSeq(Rows(cases) \ Orphaned(cases, accounts), Len(cases))
    IN  [k \in 1..Len(kept) |-> cases[kept[k]]]

\* C23: orphaned cases are excluded from the churn computation: the frame
\* predict_churn returns has the rows, and for every account the
\* Churn_Risk_Score, Churn_Risk_Level and Risk_Factors, that it has for the
\* same input without the cases whose AccountId matches no account.
C23_OrphanedCasesExcluded ==
    (pc = "predict_churn" /\ churn.kind = "frame") =>
        LET alone == ChurnRows(accountsIn, WithoutOrphaned(casesIn, accountsIn), oppsIn)
        IN  /\ Len(churn.rows) = Len(alone)
            /\ \A r \in 1..Len(churn.rows) : churn.rows[r] = alone[churn.rows[r].idx]


----------------------------------------------------------------------------
(* C26 *)

\* C26: whatever the weights of the scorer (the default, or a mapping of the
\* six factors that does not sum to 1), score_leads returns exactly one row
\* per input lead, and each row holds the fields of its lead as they were given
\* and a Lead_Score and a Priority column.
C26_OneRowPerLead ==
    pc = "score_leads" =>
        /\ Len(scored) = Len(leadsIn)
        /\ \A i \in 1..Len(leadsIn) :
              Cardinality({k \in 1..Len(scored) : scored[k].idx = i}) = 1
        /\ \A k \in 1..Len(scored) :
              /\ scored[k].idx \in 1..Len(leadsIn)
              /\ scored[k].rec = leadsIn[scored[k].idx]
              /\ {"Lead_Score", "Priority"} \subseteq DOMAIN scored[k]

\* two leads, one of them without its employee count, have been scored with
\* weights that sum to 2
C26_Witness ==
    /\ pc = "score_leads"
    /\ weights = IndustryOnly(2000)
    /\ Len(leadsIn) = 2
    /\ leadsIn[1] = ColdLead
    /\ leadsIn[2].NumberOfEmployees.k = "absent"
    /\ Len(scored) = 2


----------------------------------------------------------------------------
(* Properties of the entry points on the data of a client, and of the      *)
(* writeback                                                               *)

ScoringEntryPoints ==
    {"score_leads", "get_score_distribution", "analyse_pipeline",
     "get_stage_funnel", "predict_churn", "get_risk_summary"}

\* C24: no scoring entry point mutates its inputs: when score_leads,
\* get_score_distribution, analyse_pipeline, get_stage_funnel, predict_churn
\* or get_risk_summary returns, the record lists of the client it was called
\* on, and every record in them, are as they were before the call, and the
\* lists it was given hold the records they held.
C24_InputsNotMutated ==
    [][(pc = "idle" /\ pc' \in ScoringEntryPoints) =>
          /\ sf' = sf
          /\ (sf.mode = "mock" /\ pc' \in {"score_leads", "get_score_distribution"}) =>
                leadsIn' \in MockLeadLists \cup {sf.mock_data.leads}
          /\ (sf.mode = "mock" /\ pc' \in {"analyse_pipeline", "get_stage_funnel"}) =>
                oppsIn' = sf.mock_data.opportunities
          /\ (sf.mode = "mock" /\ pc' \in {"predict_churn", "get_risk_summary"}) =>
                /\ accountsIn' = sf.mock_data.accounts
                /\ casesIn' = sf.mock_data.cases
                /\ oppsIn' = sf.mock_data.opportunities]_vars

\* predict_churn has returned a frame of two rows for the accounts, the cases
\* and the opportunities of a mock client, which the client still holds
C24_Witness ==
    /\ pc = "predict_churn"
    /\ sf.mode = "mock"
    /\ accountsIn = sf.mock_data.accounts
    /\ casesIn = sf.mock_data.cases
    /\ oppsIn = sf.mock_data.opportunities
    /\ churn.kind = "frame"
    /\ Len(churn.rows) = 2
    /\ \A i \in 1..2 : "Churn_Risk_Score" \notin DOMAIN accountsIn[i]

\* C27: update_lead_scores calls update_record once for every row of the
\* frame, in the frame's order, whether or not an earlier row failed, and
\* returns updated + errors = the number of rows; on a mock client that has a
\* lead for every row's Id it returns updated = the number of rows and
\* errors = 0, and the lead of each row then carries the row's Lead_Score as
\* Lead_Score__c.
C27_EveryRowWrittenBack ==
    pc = "update_lead_scores" =>
        LET rows == writeback.rows
            leads == sf.mock_data.leads
        IN  /\ writeback.calls = [k \in 1..Len(rows) |-> rows[k].rec.Id]
            /\ writeback.updated + writeback.errors = Len(rows)
            /\ (/\ sf.mode = "mock"
                /\ \A k \in 1..Len(rows) :
                      \E i \in 1..Len(leads) : leads[i].Id = rows[k].rec.Id)
               => /\ writeback.updated = Len(rows)
                  /\ writeback.errors = 0
                  /\ \A k \in 1..Len(rows) :
                        \A i \in 1..Len(leads) :
                            leads[i].Id = rows[k].rec.Id =>
                                /\ "Lead_Score__c" \in DOMAIN leads[i]
                                /\ leads[i].Lead_Score__c = rows[k].Lead_Score

\* a frame of two rows has been written back and the update of one row failed
C27_Witness ==
    /\ pc = "update_lead_scores"
    /\ Len(writeback.rows) = 2
    /\ Len(writeback.calls) = 2
    /\ writeback.errors = 1
    /\ writeback.updated = 1

\* C28: when create_record on a mock client returns success with an id, for
\* Lead, Opportunity, Account, Case or Task, a record with that Id is in the
\* list a later read of the object returns.
C28_CreatedRecordIsStored ==
    (pc = "create_record" /\ created.returned.success) =>
        LET stored == ReadOf(sf.mock_data, created.object_name)
        IN  \E i \in 1..Len(stored) : stored[i].Id = created.returned.id

\* the Lead_Score and the Priority score_leads gives each lead Id
ScoresById(leads) ==
    LET rows == LeadRows(leads, weights)
    IN  {[Id |-> rows[i].rec.Id, Lead_Score |-> rows[i].Lead_Score,
          Priority |-> rows[i].Priority] : i \in 1..Len(rows)}

\* C30: writeback does not feed back into scoring: a score writeback to a mock
\* client, by update_lead_scores or by the update_record calls of the Lambda
\* and the Azure function, leaves the number of the client's leads, and the
\* Lead_Score and the Priority score_leads gives each of them, as they were.
C30_WritebackKeepsScores ==
    [][(sf.mode = "mock" /\ pc' \in {"update_lead_scores", "run_lead_scoring"}) =>
          /\ Len(sf'.mock_data.leads) = Len(sf.mock_data.leads)
          /\ ScoresById(sf'.mock_data.leads) = ScoresById(sf.mock_data.leads)]_vars

\* the leads of a client have been scored again after a writeback: a lead
\* carries the score that was written, and its new score is that score
C30_Witness ==
    /\ pc = "score_leads"
    /\ sf.mode = "mock"
    /\ leadsIn = sf.mock_data.leads
    /\ Len(scored) = 2
    /\ \A k \in 1..2 :
          /\ "Lead_Score__c" \in DOMAIN scored[k].rec
          /\ scored[k].rec.Lead_Score__c = scored[k].Lead_Score


----------------------------------------------------------------------------
(* Properties of NotificationService *)

\* C29: send_alert is failure-isolated: whichever channels raise on send,
\* every channel is called once, in the order of the channel list, with the
\* alert, send_alert returns, and the alert is once in the history; so the
\* history, as get_alert_history returns it, holds the alerts of the calls so
\* far, one per call and in call order.
C29_SendAlertIsolatesFailures ==
    /\ pc = "send_alert" =>
          /\ dispatched.returned
          /\ [k \in 1..Len(dispatched.sends) |-> dispatched.sends[k].channel] = channels
          /\ \A k \in 1..Len(dispatched.sends) :
                dispatched.sends[k].alert = alertHistory[Len(alertHistory)]
    /\ Len(GetAlertHistory(HistoryLimit)) = Len(alertCalls)
    /\ \A i \in 1..Len(alertCalls) :
          GetAlertHistory(HistoryLimit)[i] = RecordUpdate(alertCalls[i], [timestamp |-> Now])

\* the second alert has gone through three channels: the SES channel raised
\* and the Slack channel after it has sent
C29_Witness ==
    /\ pc = "send_alert"
    /\ Len(channels) = 3
    /\ Len(alertHistory) = 2
    /\ Len(dispatched.sends) = 3
    /\ ~dispatched.sends[1].raised
    /\ dispatched.sends[2].raised
    /\ ~dispatched.sends[3].raised


----------------------------------------------------------------------------
(* Properties of concurrent invocations *)

\* every invocation that has returned has returned what its entry point
\* returns for its input when it runs alone
ReturnedAsAlone ==
    \A t \in Threads : threads[t].at = "returned" => threads[t].result \in Alone(threads[t])

\* C25: the scoring components hold no cross-call mutable state: however the
\* steps of concurrent invocations of score_leads, analyse_pipeline and
\* predict_churn on the shared instances interleave, no step writes the
\* weights, the thresholds or the stage list, and every invocation returns
\* what it returns when it runs alone on the same input.
C25_NoCrossCallState ==
    /\ [][weights' = weights /\ thresholds' = thresholds /\ stages' = stages]_vars
    /\ []ReturnedAsAlone

\* an invocation of score_leads has returned a frame of two rows while an
\* invocation of predict_churn on the other thread was between its steps
C25_Witness ==
    /\ threads[1].at = "returned"
    /\ threads[1].entry = "score_leads"
    /\ Len(threads[1].result) = 2
    /\ threads[2].at = "read"
    /\ threads[2].entry = "predict_churn"

=============================================================================
